---- MODULE Spec2Model ----
(***************************************************************************)
(* Antfarm run / step / story state machine.                               *)
(*                                                                         *)
(* The persistent rows (runs, steps, stories, daemon_active_sessions) are  *)
(* the state.  Every operation of the pipeline engine (step-ops.ts), of    *)
(* the spawner (daemon/spawner.ts), of the daemon sweeps (daemon.ts) and   *)
(* of the CLI (status.ts stopWorkflow, cli.ts "workflow resume") is a pure *)
(* operator over a database record d, translated statement by statement    *)
(* from the TypeScript; the actions apply these operators.                 *)
(*                                                                         *)
(* step-ops.ts issues its SQL statements without a transaction, so two     *)
(* processes interleave between the SELECT and the UPDATE of claimStep;    *)
(* claimStep is therefore two actions (ClaimSelect, ClaimFinish).  The     *)
(* daemon awaits the worker spawn outside any transaction, so a claim in   *)
(* flight is state (inflight) and its confirmation or rollback is a        *)
(* separate action.                                                        *)
(*                                                                         *)
(* An operator returns the database it leaves behind together with what    *)
(* the call returned (res), the events it emitted (ev) and the calls of    *)
(* advancePipeline it made (adv); only the rows are kept as state.         *)
(*                                                                         *)
(* Specifications: Spec (daemon and `step claim` processes, workers and    *)
(* `workflow stop`, on workflows without verify_each), SpecVerify (a       *)
(* verify_each workflow claimed by the daemon alone), SpecResume (Spec     *)
(* with `workflow resume`, on a workflow of single steps) and SpecSweep    *)
(* (the daemon with its timers while time passes).                         *)
(***************************************************************************)
EXTENDS Integers, Sequences, FiniteSets, TLC

VARIABLES
  runs,      \* run id -> [status, scheduler, ctx]
  steps,     \* step row id -> step row
  stories,   \* story row id -> story row (rows are inserted at run time)
  recency,   \* story row ids, most recently updated first (ORDER BY updated_at DESC)
  sessions,  \* rows of daemon_active_sessions, as keys [step, story]
  sel,       \* claimer process -> step row its claimStep SELECT returned (0: none)
  inflight,  \* claims of the daemon whose worker spawn has not returned yet
  workers,   \* step row id -> workers alive that were handed that step id
  cleanupDue,\* TRUE when the daemon's CLEANUP_THROTTLE_MS has elapsed
  advCall,   \* reporting process -> its advancePipeline call between SELECTs and UPDATE
  isShuttingDown, \* the daemon's shutdown flag, set by its SIGTERM/SIGINT handler
  ctl,       \* the host as `daemon start` sees it: [pidFile, daemon, pc, ret]
  workflowCache, \* the daemon's spec cache and the workflow.yml it caches:
             \* [file, entry, loading]
  verifying  \* the story handed to the verifier: the run's most recently done
             \* story when claimStep last set a verify step running (0: none)

vars == <<runs, steps, stories, recency, sessions, sel, inflight, workers,
          cleanupDue, advCall, isShuttingDown, ctl, workflowCache, verifying>>

----------------------------------------------------------------------------
(* Bounds of the model *)

MaxStories  == 2   \* story rows ever inserted
MaxWorkers  == 2   \* work units held at once: selected, awaiting spawn or worked on

(* Program constants *)

MAX_ABANDON_RESETS    == 5
STORY_MAX_RETRIES     == 2

NULL == 0

----------------------------------------------------------------------------
(* Generic helpers *)

Merge(r, ch) == [k \in DOMAIN r |-> IF k \in DOMAIN ch THEN ch[k] ELSE r[k]]

Min(S) == CHOOSE x \in S : \A y \in S : x <= y

RECURSIVE FirstIn(_, _)
FirstIn(seq, S) ==
  IF seq = <<>> THEN NULL
  ELSE IF Head(seq) \in S THEN Head(seq) ELSE FirstIn(Tail(seq), S)

StepIds(d)  == DOMAIN d.steps
StoryIds(d) == DOMAIN d.stories

StepsOf(d, r)   == {s \in StepIds(d) : d.steps[s].run = r}
StoriesOf(d, r) == {y \in StoryIds(d) : d.stories[y].run = r}

\* UPDATE steps SET <ch>, updated_at = datetime('now') WHERE id = s
UpdStep(d, s, ch) ==
  [d EXCEPT !.steps[s] = Merge(Merge(@, ch), [age |-> 0])]

\* UPDATE steps SET <ch> WHERE id = s   (updated_at is not written)
UpdStepKeepTime(d, s, ch) ==
  [d EXCEPT !.steps[s] = Merge(@, ch)]

\* UPDATE stories SET <ch>, updated_at = datetime('now') WHERE id = y
UpdStory(d, y, ch) ==
  [d EXCEPT !.stories[y] = Merge(Merge(@, ch), [age |-> 0]),
            !.recency = <<y>> \o SelectSeq(@, LAMBDA z : z # y)]

\* UPDATE stories SET <ch> WHERE id = y   (updated_at is not written)
UpdStoryKeepTime(d, y, ch) ==
  [d EXCEPT !.stories[y] = Merge(@, ch)]

SetRunStatus(d, r, st) == [d EXCEPT !.runs[r].status = st]

SetCtx(d, r, ch) == [d EXCEPT !.runs[r].ctx = Merge(@, ch)]

emitEvent(d, ev, r, s) ==
  [d EXCEPT !.ev = @ \cup {[event |-> ev, run |-> r, step |-> s]}]

\* the value an operation returns (all operations share one record shape)
NoRes == [advanced |-> FALSE, runCompleted |-> FALSE, retrying |-> FALSE,
          runFailed |-> FALSE, found |-> FALSE, spawned |-> FALSE,
          rollback |-> FALSE, threw |-> FALSE]

AdvRes(a, c)  == [NoRes EXCEPT !.advanced = a, !.runCompleted = c]
FailRes(t, f) == [NoRes EXCEPT !.retrying = t, !.runFailed = f]
ClaimRes(f)   == [NoRes EXCEPT !.found = f]
SpawnRes(s, b) == [NoRes EXCEPT !.spawned = s, !.rollback = b]

Return(d, res) == [d EXCEPT !.res = res]

----------------------------------------------------------------------------
(* Worker outputs: the KEY: value report a worker pipes into `step         *)
(* complete`.  status is the STATUS: value, issues tells whether an        *)
(* ISSUES: line is present, nstories is the length of the STORIES_JSON     *)
(* array (0: no STORIES_JSON block), bad is the position in that array of  *)
(* the first story that fails validation (0: the block is valid).          *)

Outputs ==
  { [status |-> "done",  issues |-> FALSE, nstories |-> 0, bad |-> 0],
    [status |-> "retry", issues |-> TRUE,  nstories |-> 0, bad |-> 0],
    [status |-> "done",  issues |-> FALSE, nstories |-> 2, bad |-> 0] }

\* reports whose STORIES_JSON block fails validation: a story without its
\* required fields or a duplicate id at position bad, or (bad = 1) text that
\* is not a JSON array
InvalidOutputs ==
  { [status |-> "done", issues |-> FALSE, nstories |-> 1, bad |-> 1],
    [status |-> "done", issues |-> FALSE, nstories |-> 2, bad |-> 2] }

\* a planner's report of one story
OneStoryOutput == [status |-> "done", issues |-> FALSE, nstories |-> 1, bad |-> 0]

\* parseOutputKeyValues: lower-cased keys of the report; STORIES_JSON is skipped
parseOutputKeyValues(o) ==
  IF o.issues THEN [status |-> o.status, issues |-> "issues"]
  ELSE [status |-> o.status]

\* INSERT INTO stories ... VALUES (.., i, .., 'pending', 0, 2, ..) for i = 0..n-1;
\* each story is validated right before its INSERT, so the stories in front
\* of the first invalid one are inserted before the function throws
parseAndInsertStories(d, o, r) ==
  LET n    == IF o.bad = 0 THEN o.nstories ELSE o.bad - 1
      base == Cardinality(StoryIds(d))
      new  == [i \in 1..n |->
                 [run |-> r, story_index |-> i - 1, status |-> "pending",
                  retry_count |-> 0, max_retries |-> STORY_MAX_RETRIES, age |-> 0]]
  IN  IF n = 0 THEN d
      ELSE [d EXCEPT
              !.stories = [y \in 1..(base + n) |->
                             IF y <= base THEN d.stories[y] ELSE new[y - base]],
              \* rows of one INSERT batch share created_at = updated_at
              !.recency = @ \o [i \in 1..n |-> base + i]]

----------------------------------------------------------------------------
(* advancePipeline *)

WaitingOf(d, r)    == {s \in StepsOf(d, r) : d.steps[s].status = "waiting"}
IncompleteOf(d, r) ==
  {s \in StepsOf(d, r) : d.steps[s].status \in {"failed", "pending", "running"}}

\* the lowest-indexed waiting step (ORDER BY step_index ASC LIMIT 1)
NextWaiting(d, r) ==
  IF WaitingOf(d, r) = {} THEN NULL
  ELSE CHOOSE s \in WaitingOf(d, r) :
         \A t \in WaitingOf(d, r) : d.steps[s].idx <= d.steps[t].idx

\* an incomplete step exists before the lowest-indexed waiting step
IncompleteBeforeNext(d, r) ==
  /\ NextWaiting(d, r) # NULL
  /\ \E t \in IncompleteOf(d, r) : d.steps[t].idx < d.steps[NextWaiting(d, r)].idx

NoteAdv(d, r, call) == [d EXCEPT !.adv = @ \cup {call}]

AdvanceGuard(next, incomplete) == next = NULL /\ incomplete

advancePipeline(d, r) ==
  LET next       == NextWaiting(d, r)
      incomplete == IncompleteOf(d, r) # {}
      call(p, c) == [run |-> r, before |-> IncompleteBeforeNext(d, r),
                     terminal |-> d.runs[r].status \in {"completed", "failed", "cancelled"},
                     promoted |-> p, completed |-> c]
  IN  IF d.runs[r].status \in {"failed", "cancelled"}
        THEN Return(NoteAdv(d, r, call(FALSE, FALSE)),
                    AdvRes(FALSE, FALSE))
      ELSE IF AdvanceGuard(next, incomplete)
        THEN Return(NoteAdv(d, r, call(FALSE, FALSE)),
                    AdvRes(FALSE, FALSE))
      ELSE IF next # NULL
        THEN Return(
               NoteAdv(
                 emitEvent(
                   emitEvent(UpdStep(d, next, [status |-> "pending"]),
                             "pipeline.advanced", r, next),
                   "step.pending", r, next),
                 r, call(TRUE, FALSE)),
               AdvRes(TRUE, FALSE))
      ELSE Return(
             NoteAdv(
               emitEvent(SetRunStatus(d, r, "completed"), "run.completed", r, NULL),
               r, call(FALSE, TRUE)),
             AdvRes(FALSE, TRUE))

\* the three SELECTs of advancePipeline: the run's status, the lowest-indexed
\* waiting step, whether a failed, pending or running step exists
advanceRead(d, r) ==
  [status |-> d.runs[r].status, next |-> NextWaiting(d, r),
   incomplete |-> IncompleteOf(d, r) # {}]

\* the rest of advancePipeline, deciding on the values rd the SELECTs
\* returned: each statement is autocommitted, so the rows may have changed
\* since
advanceWrite(d, r, rd) ==
  IF rd.status \in {"failed", "cancelled"}
    THEN Return(d, AdvRes(FALSE, FALSE))
  ELSE IF AdvanceGuard(rd.next, rd.incomplete)
    THEN Return(d, AdvRes(FALSE, FALSE))
  ELSE IF rd.next # NULL
    THEN Return(
           emitEvent(
             emitEvent(UpdStep(d, rd.next, [status |-> "pending"]),
                       "pipeline.advanced", r, rd.next),
             "step.pending", r, rd.next),
           AdvRes(TRUE, FALSE))
  ELSE Return(
         emitEvent(SetRunStatus(d, r, "completed"), "run.completed", r, NULL),
         AdvRes(FALSE, TRUE))

----------------------------------------------------------------------------
(* Loop continuation and verify-each *)

StoriesIn(d, r, st) == {y \in StoriesOf(d, r) : d.stories[y].status = st}

checkLoopContinuation(d, r, loopStepId) ==
  IF StoriesIn(d, r, "pending") # {}
    THEN IF d.steps[loopStepId].status = "failed"
           THEN Return(d, AdvRes(FALSE, FALSE))
           ELSE Return(UpdStep(d, loopStepId, [status |-> "pending"]),
                       AdvRes(FALSE, FALSE))
  ELSE IF StoriesIn(d, r, "failed") # {}
    THEN Return(
           emitEvent(
             emitEvent(
               SetRunStatus(
                 UpdStep(d, loopStepId, [status |-> "failed"]),
                 r, "failed"),
               "step.failed", r, loopStepId),
             "run.failed", r, NULL),
           AdvRes(FALSE, FALSE))
  ELSE LET d1 == UpdStep(d, loopStepId, [status |-> "done"])
           L  == d.steps[loopStepId]
           d2 == IF L.verifyEach /\ L.verifyStep # NULL
                   THEN UpdStep(d1, L.verifyStep, [status |-> "done"])
                   ELSE d1
       IN  advancePipeline(d2, r)

\* the most recently updated done story of the run
\* (ORDER BY updated_at DESC LIMIT 1)
LastDoneStory(d, r) == FirstIn(d.recency, StoriesIn(d, r, "done"))

\* the test of the retry budget letting one more retry through
RetryExhaustedLate(newRetry, maxRetries) == newRetry > maxRetries + 1

RetryExhausted(newRetry, maxRetries) == newRetry > maxRetries

handleVerifyEachCompletion(d, v, loopStepId, o) ==
  LET r      == d.steps[v].run
      status == d.runs[r].ctx.status
      d1     == UpdStep(d, v, [status |-> "waiting"])
  IN  IF status = "retry"
        THEN LET last == LastDoneStory(d1, r)
             IN  IF last # NULL
                   THEN LET newRetry == d1.stories[last].retry_count + 1
                        IN  IF RetryExhausted(newRetry, d1.stories[last].max_retries)
                              THEN Return(
                                     emitEvent(
                                       emitEvent(
                                         SetRunStatus(
                                           UpdStep(
                                             UpdStory(d1, last, [status |-> "failed",
                                                                 retry_count |-> newRetry]),
                                             loopStepId, [status |-> "failed"]),
                                           r, "failed"),
                                         "story.failed", r, v),
                                       "run.failed", r, NULL),
                                     AdvRes(FALSE, FALSE))
                              ELSE LET issues == IF d1.runs[r].ctx.issues # "absent"
                                                   THEN d1.runs[r].ctx.issues
                                                   ELSE "output"
                                   IN  Return(
                                         UpdStep(
                                           emitEvent(
                                             SetCtx(
                                               UpdStory(d1, last, [status |-> "pending",
                                                                   retry_count |-> newRetry]),
                                               r, [verify_feedback |-> issues]),
                                             "story.retry", r, v),
                                           loopStepId, [status |-> "pending"]),
                                         AdvRes(FALSE, FALSE))
                   ELSE Return(UpdStep(d1, loopStepId, [status |-> "pending"]),
                               AdvRes(FALSE, FALSE))
      ELSE checkLoopContinuation(
             SetCtx(emitEvent(d1, "story.verified", r, v), r,
                    [verify_feedback |-> "absent"]),
             r, loopStepId)

----------------------------------------------------------------------------
(* completeStep *)

\* the run's loop step (SELECT ... WHERE run_id = ? AND type = 'loop' LIMIT 1);
\* the workflows of this model have at most one loop step
LoopStepOf(d, r) ==
  LET L == {s \in StepsOf(d, r) : d.steps[s].type = "loop"}
  IN  IF L = {} THEN NULL ELSE CHOOSE s \in L : TRUE

\* the guard at the top of completeStep: the statuses of the run for which
\* the completion is dropped
CompleteGuardStatuses == {"failed"}

completeStep(d, stepId, o) ==
  LET step == d.steps[stepId]
      r    == step.run
  IN  IF d.runs[r].status \in CompleteGuardStatuses
        THEN Return(d, AdvRes(FALSE, FALSE))
      ELSE
        LET d1 == SetCtx(d, r, parseOutputKeyValues(o))
            d2 == parseAndInsertStories(d1, o, r)
            L  == LoopStepOf(d2, r)
        IN  IF o.bad # 0
              THEN Return(d2, [NoRes EXCEPT !.threw = TRUE])
            ELSE IF step.type = "loop" /\ step.cur # NULL
              THEN LET d3 == emitEvent(
                               UpdStory(d2, step.cur, [status |-> "done"]),
                               "story.done", r, stepId)
                       d4 == UpdStep(d3, stepId, [cur |-> NULL])
                   IN  IF step.verifyEach /\ step.verifyStep # NULL
                         THEN Return(
                                UpdStep(UpdStep(d4, step.verifyStep, [status |-> "pending"]),
                                        stepId, [status |-> "running"]),
                                AdvRes(FALSE, FALSE))
                         ELSE checkLoopContinuation(d4, r, stepId)
            ELSE IF L # NULL /\ d2.steps[L].verifyEach /\ d2.steps[L].verifyStep = stepId
              THEN handleVerifyEachCompletion(d2, stepId, L, o)
            ELSE advancePipeline(
                   emitEvent(UpdStep(d2, stepId, [status |-> "done"]),
                             "step.done", r, stepId),
                   r)

\* completeStep reaches its last branch: the run is not failed, the step is
\* neither a loop step with a current story nor the verify step of a loop
CompletesAsSingle(d, stepId) ==
  LET step == d.steps[stepId]
      L    == LoopStepOf(d, step.run)
  IN  /\ d.runs[step.run].status \notin CompleteGuardStatuses
      /\ ~(step.type = "loop" /\ step.cur # NULL)
      /\ ~(L # NULL /\ d.steps[L].verifyEach /\ d.steps[L].verifyStep = stepId)

\* completeStep of such a step up to its call of advancePipeline
completeStepDone(d, stepId, o) ==
  LET r == d.steps[stepId].run
  IN  emitEvent(
        UpdStep(parseAndInsertStories(SetCtx(d, r, parseOutputKeyValues(o)), o, r),
                stepId, [status |-> "done"]),
        "step.done", r, stepId)

----------------------------------------------------------------------------
(* failStep *)

failStep(d, stepId) ==
  LET step == d.steps[stepId]
      r    == step.run
  IN  IF step.type = "loop" /\ step.cur # NULL
        THEN LET story    == d.stories[step.cur]
                 newRetry == story.retry_count + 1
             IN  IF RetryExhausted(newRetry, story.max_retries)
                   THEN Return(
                          emitEvent(emitEvent(emitEvent(
                            SetRunStatus(
                              UpdStep(
                                UpdStory(d, step.cur, [status |-> "failed",
                                                       retry_count |-> newRetry]),
                                stepId, [status |-> "failed", cur |-> NULL]),
                              r, "failed"),
                            "story.failed", r, stepId), "step.failed", r, stepId),
                            "run.failed", r, NULL),
                          FailRes(FALSE, TRUE))
                   ELSE Return(
                          UpdStep(
                            UpdStory(d, step.cur, [status |-> "pending",
                                                   retry_count |-> newRetry]),
                            stepId, [status |-> "pending", cur |-> NULL]),
                          FailRes(TRUE, FALSE))
      ELSE LET newRetryCount == step.retry_count + 1
           IN  IF RetryExhausted(newRetryCount, step.max_retries)
                 THEN Return(
                        emitEvent(emitEvent(
                          SetRunStatus(
                            UpdStep(d, stepId, [status |-> "failed",
                                                retry_count |-> newRetryCount]),
                            r, "failed"),
                          "step.failed", r, stepId), "run.failed", r, NULL),
                        FailRes(FALSE, TRUE))
                 ELSE Return(
                        UpdStep(d, stepId, [status |-> "pending",
                                            retry_count |-> newRetryCount]),
                        FailRes(TRUE, FALSE))

----------------------------------------------------------------------------
(* cleanupAbandonedSteps.  A row's age is 0 when it was just written, 1    *)
(* when it is older than the 5-minute claiming limit and 2 when it is      *)
(* older than ABANDONED_THRESHOLD_MS.                                      *)

AbandonedAge == 2
StaleAge     == 1

AbandonedSteps(d) ==
  {s \in StepIds(d) : d.steps[s].status = "running" /\ d.steps[s].age >= AbandonedAge}

\* the test of the abandonment cap letting one more abandonment through
AbandonsExhaustedLate(newAbandonCount) == newAbandonCount > MAX_ABANDON_RESETS

AbandonsExhausted(newAbandonCount) == newAbandonCount >= MAX_ABANDON_RESETS

\* the body of the `for (const step of abandonedSteps)` loop, for the step
\* row as it was selected (row) against the database as it is now (d)
\* a pass that takes no account of a verification under way
VerifyUnderWayIgnored(d, row) == FALSE

\* the loop step has no current story and its verify step is pending or
\* running: the loop waits for the verification
VerifyUnderWay(d, row) ==
  /\ row.type = "loop" /\ row.cur = NULL
  /\ row.verifyEach /\ row.verifyStep # NULL
  /\ d.steps[row.verifyStep].status \in {"pending", "running"}

AbandonOne(d, s, row) ==
  LET r == row.run
  IN  IF VerifyUnderWay(d, row)
        THEN d
      ELSE IF row.type = "loop" /\ row.cur # NULL
        THEN LET story    == d.stories[row.cur]
                 newRetry == story.retry_count + 1
             IN  IF RetryExhausted(newRetry, story.max_retries)
                   THEN emitEvent(emitEvent(emitEvent(
                          SetRunStatus(
                            UpdStep(
                              UpdStory(d, row.cur, [status |-> "failed",
                                                    retry_count |-> newRetry]),
                              s, [status |-> "failed", cur |-> NULL]),
                            r, "failed"),
                          "story.failed", r, s), "step.failed", r, s),
                          "run.failed", r, NULL)
                   ELSE emitEvent(
                          UpdStep(
                            UpdStory(d, row.cur, [status |-> "pending",
                                                  retry_count |-> newRetry]),
                            s, [status |-> "pending", cur |-> NULL]),
                          "step.timeout", r, s)
      ELSE LET newAbandonCount == row.abandoned_count + 1
           IN  IF AbandonsExhausted(newAbandonCount)
                 THEN emitEvent(emitEvent(emitEvent(
                        SetRunStatus(
                          UpdStep(d, s, [status |-> "failed",
                                         abandoned_count |-> newAbandonCount]),
                          r, "failed"),
                        "step.timeout", r, s), "step.failed", r, s),
                        "run.failed", r, NULL)
                 ELSE emitEvent(
                        UpdStep(d, s, [status |-> "pending",
                                       abandoned_count |-> newAbandonCount]),
                        "step.timeout", r, s)

RECURSIVE AbandonAll(_, _, _)
AbandonAll(d, todo, rows) ==
  IF todo = {} THEN d
  ELSE LET s == Min(todo)
       IN  AbandonAll(AbandonOne(d, s, rows[s]), todo \ {s}, rows)

AbandonedStories(d) ==
  {y \in StoryIds(d) : d.stories[y].status = "running" /\ d.stories[y].age >= AbandonedAge}

RECURSIVE ResetStories(_, _)
ResetStories(d, todo) ==
  IF todo = {} THEN d
  ELSE LET y == Min(todo)
       IN  ResetStories(UpdStory(d, y, [status |-> "pending"]), todo \ {y})

\* loop steps that are done in a running run with no later pending/running
\* step and at least one later waiting step
StuckLoops(d) ==
  {s \in StepIds(d) :
     /\ d.steps[s].type = "loop" /\ d.steps[s].status = "done"
     /\ d.runs[d.steps[s].run].status = "running"
     /\ ~ \E s2 \in StepsOf(d, d.steps[s].run) :
            d.steps[s2].idx > d.steps[s].idx /\ d.steps[s2].status \in {"pending", "running"}
     /\ \E s3 \in StepsOf(d, d.steps[s].run) :
            d.steps[s3].idx > d.steps[s].idx /\ d.steps[s3].status = "waiting"}

RECURSIVE RecoverStuck(_, _)
\* a sweep that finds the stuck pipelines and leaves them
RecoverStuckSkipped(d, todo) == d

RecoverStuck(d, todo) ==
  IF todo = {} THEN d
  ELSE LET s == Min(todo)
       IN  RecoverStuck(advancePipeline(d, d.steps[s].run), todo \ {s})

cleanupAbandonedSteps(d) ==
  LET d1 == AbandonAll(d, AbandonedSteps(d), d.steps)
      d2 == ResetStories(d1, AbandonedStories(d1))
  IN  RecoverStuck(d2, StuckLoops(d2))

----------------------------------------------------------------------------
(* claimStep.  The SELECT of the pending row and the statements after it   *)
(* are separate autocommitted statements.                                  *)

\* SELECT ... WHERE s.agent_id = ? AND s.status = 'pending'
\*   AND r.status NOT IN ('failed', 'cancelled') LIMIT 1
ClaimCandidates(d, agentId) ==
  {s \in StepIds(d) :
     /\ d.steps[s].agent = agentId
     /\ d.steps[s].status = "pending"
     /\ d.runs[d.steps[s].run].status \notin {"failed", "cancelled"}}

NextStory(d, r) ==
  IF StoriesIn(d, r, "pending") = {} THEN NULL
  ELSE CHOOSE y \in StoriesIn(d, r, "pending") :
         \A z \in StoriesIn(d, r, "pending") :
           d.stories[y].story_index <= d.stories[z].story_index

\* claimStep writing the status the spawner's rollback looks for
ClaimedStepStatusClaiming == "claiming"

\* the status claimStep writes to the claimed step row
ClaimedStepStatus == "running"

\* the statements of claimStep after the SELECT returned row s
claimStepFinish(d, s) ==
  LET step == d.steps[s]
      r    == step.run
  IN  IF d.runs[r].status = "failed" THEN Return(d, ClaimRes(FALSE))
      ELSE IF step.type = "loop"
        THEN LET nextStory == NextStory(d, r)
             IN  IF nextStory = NULL
                   THEN IF StoriesIn(d, r, "failed") # {}
                          THEN Return(
                                 emitEvent(emitEvent(
                                   SetRunStatus(
                                     UpdStep(d, s, [status |-> "failed"]),
                                     r, "failed"),
                                   "step.failed", r, s), "run.failed", r, NULL),
                                 ClaimRes(FALSE))
                          ELSE Return(
                                 advancePipeline(
                                   emitEvent(UpdStep(d, s, [status |-> "done"]),
                                             "step.done", r, s),
                                   r),
                                 ClaimRes(FALSE))
                   ELSE Return(
                          SetCtx(
                            emitEvent(emitEvent(
                              UpdStep(
                                UpdStory(d, nextStory, [status |-> "running"]),
                                s, [status |-> "running", cur |-> nextStory]),
                              "step.running", r, s), "story.started", r, s),
                            r,
                            IF d.runs[r].ctx.verify_feedback = "absent"
                              THEN [verify_feedback |-> ""]
                              ELSE [verify_feedback |-> d.runs[r].ctx.verify_feedback]),
                          ClaimRes(TRUE))
      ELSE Return(
             emitEvent(
               IF d.steps[s].status = "pending"
                 THEN UpdStep(d, s, [status |-> ClaimedStepStatus])
                 ELSE d,
               "step.running", r, s),
             ClaimRes(TRUE))

----------------------------------------------------------------------------
(* claimStory: the spawner imports it from step-ops, which does not        *)
(* define it; it is modelled from the specification of the claim.          *)

TerminalStatuses == {"completed", "failed", "cancelled"}

claimStory(d, agentId, loopStepId) ==
  LET r    == d.steps[loopStepId].run
      next == NextStory(d, r)
      none == [d EXCEPT !.claim = NULL]
  IN  IF d.runs[r].status \in TerminalStatuses THEN Return(none, ClaimRes(FALSE))
      ELSE IF next = NULL
        THEN IF StoriesIn(d, r, "failed") # {}
               THEN Return(
                      emitEvent(emitEvent(
                        SetRunStatus(UpdStep(none, loopStepId, [status |-> "failed"]),
                                     r, "failed"),
                        "step.failed", r, loopStepId), "run.failed", r, NULL),
                      ClaimRes(FALSE))
             ELSE IF \A y \in StoriesOf(d, r) : d.stories[y].status = "done"
               THEN Return(
                      advancePipeline(
                        emitEvent(UpdStep(none, loopStepId, [status |-> "done"]),
                                  "step.done", r, loopStepId),
                        r),
                      ClaimRes(FALSE))
             ELSE Return(none, ClaimRes(FALSE))
      ELSE Return(
             [emitEvent(
                UpdStep(UpdStory(d, next, [status |-> "claiming"]),
                        loopStepId, [cur |-> next]),
                "story.claimed", r, loopStepId)
              EXCEPT !.claim = next],
             ClaimRes(TRUE))

----------------------------------------------------------------------------
(* peekAndSpawn, after claimStep found no step: the loop-step branch.      *)
(* The result's claim field is the story row claimed (NULL: no spawn).     *)

RunningLoopSteps(d, agentId) ==
  {s \in StepIds(d) :
     d.steps[s].agent = agentId /\ d.steps[s].type = "loop" /\ d.steps[s].status = "running"}

\* getDependencies: the steps of the run with a lower step_index
getDependencies(d, s) ==
  {t \in StepsOf(d, d.steps[s].run) : d.steps[t].idx < d.steps[s].idx}

\* getStoryDependencies: the stories (of any run) with a lower story_index
getStoryDependencies(d, y) ==
  {z \in StoryIds(d) : d.stories[z].story_index < d.stories[y].story_index}

peekLoopBranch(d, agentId, loopStep) ==
  LET none == Return([d EXCEPT !.claim = NULL], SpawnRes(FALSE, FALSE))
      cur  == d.steps[loopStep].cur
  IN  IF \E t \in getDependencies(d, loopStep) : d.steps[t].status # "done"
        THEN none
      ELSE IF cur # NULL /\ d.stories[cur].status \in {"running", "claiming"}
        THEN none
      ELSE
        LET d1 == IF cur # NULL /\ d.stories[cur].status \in {"done", "failed"}
                    THEN UpdStepKeepTime(d, loopStep, [cur |-> NULL])
                    ELSE d
            np == NextStory(d1, d1.steps[loopStep].run)
        IN  IF np # NULL /\ \E z \in getStoryDependencies(d1, np) :
                              d1.stories[z].status # "done"
              THEN Return([d1 EXCEPT !.claim = NULL], SpawnRes(FALSE, FALSE))
              ELSE claimStory(d1, agentId, loopStep)

----------------------------------------------------------------------------
(* spawnForClaimed: the two transactions that follow the awaited spawn.    *)
(* withTransaction is imported from db.js, which does not define it; it    *)
(* commits when the callback returns and rolls back when it throws.        *)

SessionKeys(d) == {[step |-> x.step, story |-> x.story] : x \in d.sessions}

\* the rollback transaction of the catch block
spawnRollback(d, c) ==
  IF c.story # NULL
    THEN LET d1 == IF d.stories[c.story].status = "claiming"
                     THEN UpdStory(d, c.story, [status |-> "pending"])
                     ELSE d
         IN  Return(
               IF d1.steps[c.step].cur = c.story
                 THEN UpdStepKeepTime(d1, c.step, [cur |-> NULL])
                 ELSE d1,
               SpawnRes(FALSE, TRUE))
    ELSE Return(
           IF d.steps[c.step].status = "claiming"
             THEN UpdStep(d, c.step, [status |-> "pending"])
             ELSE d,
           SpawnRes(FALSE, TRUE))

\* the transaction after a successful spawn; the INSERT fails on a duplicate
\* (agent_id, step_id, COALESCE(story_id, '')) and the catch block then
\* runs the rollback transaction
spawnConfirm(d, c) ==
  LET r  == d.steps[c.step].run
      \* the row is written 'running' whatever its status is
      d1 == IF c.story # NULL
              THEN emitEvent(UpdStory(d, c.story, [status |-> "running"]),
                             "story.started", r, c.step)
              ELSE emitEvent(UpdStep(d, c.step, [status |-> "running"]),
                             "step.running", r, c.step)
  IN  IF [step |-> c.step, story |-> c.story] \in SessionKeys(d)
        THEN spawnRollback([d EXCEPT !.ev = d1.ev], c)
        ELSE Return(
               [d1 EXCEPT !.sessions = @ \cup {[step |-> c.step, story |-> c.story,
                                                 age |-> 0]}],
               SpawnRes(TRUE, FALSE))

----------------------------------------------------------------------------
(* stopWorkflow (status.ts) and `workflow resume` (cli.ts) *)

RECURSIVE UpdSteps(_, _, _)
UpdSteps(d, todo, ch) ==
  IF todo = {} THEN d
  ELSE LET s == Min(todo) IN UpdSteps(UpdStep(d, s, ch), todo \ {s}, ch)

RECURSIVE UpdStepsKeepTime(_, _, _)
UpdStepsKeepTime(d, todo, ch) ==
  IF todo = {} THEN d
  ELSE LET s == Min(todo)
       IN  UpdStepsKeepTime(UpdStepKeepTime(d, s, ch), todo \ {s}, ch)

RECURSIVE UpdStories(_, _, _)
UpdStories(d, todo, ch) ==
  IF todo = {} THEN d
  ELSE LET y == Min(todo) IN UpdStories(UpdStory(d, y, ch), todo \ {y}, ch)

\* the runs stopWorkflow refuses with "already_done"
StopRefused == {"completed", "cancelled"}

\* a stop that leaves the running steps to their workers
StopCancelsIdle == {"waiting", "pending"}

\* the step statuses stopWorkflow turns into failed
StopCancels == {"waiting", "pending", "running"}

stopWorkflow(d, r) ==
  IF d.runs[r].status \in StopRefused THEN d
  ELSE emitEvent(
         UpdSteps(SetRunStatus(d, r, "cancelled"),
                  {s \in StepsOf(d, r) : d.steps[s].status \in StopCancels},
                  [status |-> "failed"]),
         "run.failed", r, NULL)

FailedSteps(d, r) == {s \in StepsOf(d, r) : d.steps[s].status = "failed"}

FirstFailedStep(d, r) ==
  CHOOSE s \in FailedSteps(d, r) :
    \A t \in FailedSteps(d, r) : d.steps[s].idx <= d.steps[t].idx

FirstFailedStory(d, r) ==
  CHOOSE y \in StoriesIn(d, r, "failed") :
    \A z \in StoriesIn(d, r, "failed") :
      d.stories[y].story_index <= d.stories[z].story_index

\* the statuses of the run for which `workflow resume` proceeds
ResumeFrom == {"failed"}

resumeWorkflow(d, r) ==
  IF d.runs[r].status \notin ResumeFrom \/ FailedSteps(d, r) = {} THEN d
  ELSE
    LET failedStep == FirstFailedStep(d, r)
        d1 == IF d.steps[failedStep].type = "loop"
                THEN UpdStepsKeepTime(
                       IF StoriesIn(d, r, "failed") # {}
                         THEN UpdStory(d, FirstFailedStory(d, r), [status |-> "pending"])
                         ELSE d,
                       {s \in StepsOf(d, r) : d.steps[s].type = "loop"},
                       [retry_count |-> 0])
                ELSE d
        loops == {s \in StepsOf(d1, r) :
                    d1.steps[s].type = "loop" /\ d1.steps[s].status \in {"running", "failed"}}
        loopStep == IF loops = {} THEN NULL ELSE CHOOSE s \in loops : TRUE
    IN  IF /\ loopStep # NULL
           /\ d1.steps[loopStep].verifyEach
           /\ d1.steps[loopStep].verifyStep = failedStep
          THEN SetRunStatus(
                 UpdStories(
                   UpdStep(
                     UpdStep(d1, loopStep, [status |-> "pending", cur |-> NULL,
                                            retry_count |-> 0]),
                     failedStep, [status |-> "waiting", cur |-> NULL, retry_count |-> 0]),
                   StoriesIn(d1, r, "failed"), [status |-> "pending"]),
                 r, "running")
          ELSE SetRunStatus(
                 UpdStep(d1, failedStep, [status |-> "pending", cur |-> NULL,
                                          retry_count |-> 0]),
                 r, "running")

----------------------------------------------------------------------------
(* cleanupStaleClaimingState (daemon.ts) *)

StaleClaimingSteps(d) ==
  {s \in StepIds(d) : d.steps[s].status = "claiming" /\ d.steps[s].age >= StaleAge}

\* stories in claiming that a step row points at (JOIN steps st ON
\* st.current_story_id = s.id)
StaleClaimingStories(d) ==
  {y \in StoryIds(d) :
     /\ d.stories[y].status = "claiming" /\ d.stories[y].age >= StaleAge
     /\ \E s \in StepIds(d) : d.steps[s].cur = y}

RECURSIVE RevertSteps(_, _)
RevertSteps(d, todo) ==
  IF todo = {} THEN d
  ELSE LET s == Min(todo)
       IN  RevertSteps(
             emitEvent(
               UpdStepKeepTime(UpdStep(d, s, [status |-> "pending"]), s,
                               [retry_count |-> d.steps[s].retry_count + 1]),
               "step.rollback", d.steps[s].run, s),
             todo \ {s})

\* the rows `UPDATE steps SET current_story_id = NULL WHERE id = ?` changes
\* when it is given st.step_id, the step's name in the workflow: row ids are
\* random UUIDs, so no row has that id
StepRowsWithIdEqualToName(d, y) == {}

RECURSIVE RevertStories(_, _)
RevertStories(d, todo) ==
  IF todo = {} THEN d
  ELSE LET y == Min(todo)
       IN  RevertStories(
             emitEvent(
               UpdStoryKeepTime(
                 UpdStepsKeepTime(UpdStory(d, y, [status |-> "pending"]),
                                  StepRowsWithIdEqualToName(d, y), [cur |-> NULL]),
                 y, [retry_count |-> d.stories[y].retry_count + 1]),
               "story.rollback", d.stories[y].run, NULL),
             todo \ {y})

\* a session row's age is 1 when it is older than 15 minutes and 2 when it
\* is older than one hour
SessionStaleAge == 1
SessionOldAge   == 2

cleanupStaleClaimingState(d) ==
  LET d1 == RevertSteps(d, StaleClaimingSteps(d))
      d2 == RevertStories(d1, StaleClaimingStories(d1))
  IN  [d2 EXCEPT !.sessions =
         {x \in @ : ~ \/ x.age >= SessionOldAge
                      \/ d2.steps[x.step].status \in {"pending", "waiting", "done", "failed"}}]

\* cleanupStaleSessions (spawner.ts): DELETE the rows with spawned_at < cutoff,
\* the cutoff being 15 minutes ago.  spawned_at is written by SQLite's
\* datetime('now') ('YYYY-MM-DD HH:MM:SS') and compared as text with the
\* cutoff's toISOString() ('YYYY-MM-DDTHH:MM:SS.sssZ'): where the dates are
\* equal the strings differ at the 11th character, ' ' < 'T', so a row
\* compares lower exactly when its date is the cutoff's date or an earlier
\* one.  A row older than 15 minutes always does; a younger row does unless
\* it is in afterMidnight, the rows spawned since a midnight (UTC) that the
\* cutoff has not reached.
cleanupStaleSessionsHourOld(d, afterMidnight) ==
  [d EXCEPT !.sessions = {x \in @ : x.age < SessionOldAge}]

cleanupStaleSessions(d, afterMidnight) ==
  [d EXCEPT !.sessions = {x \in @ : x.age < SessionStaleAge /\ x \in afterMidnight}]

----------------------------------------------------------------------------
(* Workflows and runWorkflow: the rows a new run starts with *)

StepDef(agent, type, verifyEach, verifyStep, maxRetries) ==
  [agent |-> agent, type |-> type, verifyEach |-> verifyEach, verifyStep |-> verifyStep,
   max_retries |-> maxRetries]

\* workflows that do not verify each story
Workflows ==
  { \* three single steps
    << StepDef("planner", "single", FALSE, NULL, 0),
       StepDef("developer", "single", FALSE, NULL, 1),
       StepDef("tester", "single", FALSE, NULL, 0) >>,
    \* plan, then a loop over the stories, then test
    << StepDef("planner", "single", FALSE, NULL, 0),
       StepDef("developer", "loop", FALSE, NULL, 0),
       StepDef("tester", "single", FALSE, NULL, 0) >> }

\* plan, then a loop over the stories with verify_each
VerifyWorkflows ==
  { << StepDef("planner", "single", FALSE, NULL, 0),
       StepDef("developer", "loop", TRUE, 3, 0),
       StepDef("verifier", "single", FALSE, NULL, 0) >> }

Agents == {"planner", "developer", "verifier", "tester"}

Claimers == {"daemon", "cli"}

\* the processes running `antfarm step complete` at once
Reporters == {"report1", "report2"}

\* no advancePipeline call of the process is under way
NoCall == [step |-> NULL, run |-> NULL,
           rd |-> [status |-> "none", next |-> NULL, incomplete |-> FALSE]]

EmptyCtx == [status |-> "absent", issues |-> "absent", verify_feedback |-> "absent"]

\* the processes running `antfarm daemon start` at once; the daemon a
\* request spawns is named after the request
Starters == {"start1", "start2", "start3"}

\* no PID file, no daemon, no start request under way
NoDaemon == [pidFile |-> "none",
             daemon  |-> [p \in Starters |-> "unborn"],
             pc      |-> [p \in Starters |-> "idle"],
             ret     |-> [p \in Starters |-> "none"]]

\* the daemon processes that exist
LiveDaemons(c) == {p \in Starters : c.daemon[p] \in {"booting", "alive"}}

\* isRunning: the PID file is read and its process probed with kill(pid, 0);
\* a file naming a dead process is unlinked
isRunning(c) ==
  IF c.pidFile = "none" THEN [running |-> FALSE, pid |-> "none", c |-> c]
  ELSE IF c.pidFile \in LiveDaemons(c)
    THEN [running |-> TRUE, pid |-> c.pidFile, c |-> c]
  ELSE [running |-> FALSE, pid |-> "none", c |-> [c EXCEPT !.pidFile = "none"]]

\* the contents workflow.yml has over time
FileContents == {"yml1", "yml2", "yml3"}

\* calculateChecksum: the MD5 digest of the file's bytes
calculateChecksum(content) ==
  CASE content = "yml1" -> "md5-a"
    [] content = "yml2" -> "md5-b"
    [] content = "yml3" -> "md5-c"

\* loadWorkflowSpec: the spec parsed from the file's bytes
loadWorkflowSpec(content) ==
  CASE content = "yml1" -> "spec1"
    [] content = "yml2" -> "spec2"
    [] content = "yml3" -> "spec3"

NoEntry == [spec |-> "none", checksum |-> "none", expired |-> TRUE]

\* the cache of a daemon that has not loaded the workflow yet
EmptyCache == [file |-> "yml1", entry |-> NoEntry, loading |-> "none"]

\* the test of getCachedWorkflow: an entry exists, is younger than its TTL
\* and its checksum is the file's
CacheHit(c) ==
  /\ c.entry # NoEntry
  /\ ~c.entry.expired
  /\ calculateChecksum(c.file) = c.entry.checksum

\* the INSERTs of runWorkflow: step 0 pending, the others waiting
runWorkflow(wf, r, scheduler) ==
  [runs  |-> [x \in {r} |-> [status |-> "running", scheduler |-> scheduler,
                              ctx |-> EmptyCtx]],
   steps |-> [i \in 1..Len(wf) |->
                [run |-> r, idx |-> i - 1, agent |-> wf[i].agent, type |-> wf[i].type,
                 verifyEach |-> wf[i].verifyEach, verifyStep |-> wf[i].verifyStep,
                 status |-> IF i = 1 THEN "pending" ELSE "waiting",
                 retry_count |-> 0, max_retries |-> wf[i].max_retries,
                 abandoned_count |-> 0, cur |-> NULL, age |-> 0]]]

\* the state after `antfarm workflow run` of one of the workflows W
InitOf(W) ==
  \E wf \in W :
    /\ runs = runWorkflow(wf, 1, "daemon").runs
    /\ steps = runWorkflow(wf, 1, "daemon").steps
    /\ stories = <<>>
    /\ recency = <<>>
    /\ sessions = {}
    /\ sel = [p \in Claimers |-> NULL]
    /\ inflight = {}
    /\ workers = [s \in 1..Len(wf) |-> 0]
    /\ cleanupDue = TRUE
    /\ advCall = [p \in Reporters |-> NoCall]
    /\ isShuttingDown = FALSE
    /\ ctl = NoDaemon
    /\ workflowCache = EmptyCache
    /\ verifying = NULL

Init == InitOf(Workflows)

InitVerify == InitOf(VerifyWorkflows)

\* the workflows without a loop step
StepWorkflows == {wf \in Workflows : \A i \in 1..Len(wf) : wf[i].type = "single"}

InitSteps == InitOf(StepWorkflows)

\* the state after `antfarm workflow run` was called twice on one workflow of
\* single steps: run 1 with scheduler daemon, run 2 with scheduler cron
InitTwoRuns ==
  \E wf \in StepWorkflows :
    LET R1 == runWorkflow(wf, 1, "daemon")
        R2 == runWorkflow(wf, 2, "cron")
    IN  /\ runs = [r \in {1, 2} |-> IF r = 1 THEN R1.runs[1] ELSE R2.runs[2]]
        /\ steps = R1.steps \o R2.steps
        /\ stories = <<>>
        /\ recency = <<>>
        /\ sessions = {}
        /\ sel = [p \in Claimers |-> NULL]
        /\ inflight = {}
        /\ workers = [s \in 1..(2 * Len(wf)) |-> 0]
        /\ cleanupDue = TRUE
        /\ advCall = [p \in Reporters |-> NoCall]
        /\ isShuttingDown = FALSE
        /\ ctl = NoDaemon
        /\ workflowCache = EmptyCache
        /\ verifying = NULL

----------------------------------------------------------------------------
(* Actions *)

DB == [runs |-> runs, steps |-> steps, stories |-> stories, recency |-> recency,
       sessions |-> sessions, ev |-> {}, adv |-> {}, res |-> NoRes, claim |-> NULL]

Commit(d) ==
  /\ runs' = d.runs
  /\ steps' = d.steps
  /\ stories' = d.stories
  /\ recency' = d.recency
  /\ sessions' = d.sessions

RECURSIVE SumOver(_, _)
SumOver(f, S) == IF S = {} THEN 0 ELSE LET x == Min(S) IN f[x] + SumOver(f, S \ {x})

\* the workers alive
Alive == SumOver(workers, DOMAIN workers)

\* the work units some process holds: a claimStep past its SELECT, a claim
\* whose spawn is awaited, a worker alive
Held == Cardinality({p \in DOMAIN sel : sel[p] # NULL}) + Cardinality(inflight) + Alive

\* what the claim of step s hands to a verifier: the verify step of a
\* verify_each loop is made pending by the completion of a story, which is
\* then the run's most recently done one; d is the database as claimStep
\* leaves it
HandedToVerifier(d, s) ==
  LET r == d.steps[s].run
      L == LoopStepOf(d, r)
  IN  IF /\ d.res.found
         /\ L # NULL /\ d.steps[L].verifyEach /\ d.steps[L].verifyStep = s
        THEN LastDoneStory(d, r)
        ELSE verifying

\* `antfarm step claim <agent>`: a fresh process, so lastCleanupTime is 0 and
\* the sweep runs before the SELECT
CliClaimSelect(agentId) ==
  /\ sel["cli"] = NULL
  /\ LET d == cleanupAbandonedSteps(DB)
     IN  /\ Commit(d)
         /\ \/ /\ ClaimCandidates(d, agentId) = {}
               /\ sel' = sel
            \/ \E s \in ClaimCandidates(d, agentId) :
                 /\ Held < MaxWorkers
                 /\ sel' = [sel EXCEPT !["cli"] = s]
  /\ UNCHANGED <<inflight, workers, cleanupDue, advCall, isShuttingDown, ctl, workflowCache, verifying>>

\* the cron agent that claimed the step is the worker that reports on it
CliClaimFinish ==
  /\ sel["cli"] # NULL
  /\ LET s == sel["cli"]
         d == claimStepFinish(DB, s)
     IN  /\ Commit(d)
         /\ workers' = IF d.res.found THEN [workers EXCEPT ![s] = @ + 1] ELSE workers
         /\ verifying' = HandedToVerifier(d, s)
  /\ sel' = [sel EXCEPT !["cli"] = NULL]
  /\ UNCHANGED <<inflight, cleanupDue, advCall, isShuttingDown, ctl, workflowCache>>

\* a polling tick that returns at once whatever the shutdown flag says
DaemonTicksAfterShutdown == TRUE

\* the polling timer's callback and runDaemonLoop's two loops go on only
\* while the shutdown flag is not set
DaemonTicks == ~isShuttingDown

\* runDaemonLoop's query: a running run with scheduler = 'daemon' exists
DaemonMonitors ==
  \E r \in DOMAIN runs : runs[r].status = "running" /\ runs[r].scheduler = "daemon"

\* peekAndSpawn after claimStep returned found: false
DaemonLoopBranch(d, agentId) ==
  \/ /\ RunningLoopSteps(d, agentId) = {}
     /\ Commit(d)
     /\ inflight' = inflight
  \/ \E L \in RunningLoopSteps(d, agentId) :
       LET d1 == peekLoopBranch(d, agentId, L)
       IN  /\ Commit(d1)
           /\ inflight' = IF d1.claim # NULL
                            THEN inflight \cup {[step |-> L, story |-> d1.claim]}
                            ELSE inflight

\* a daemon tick reaches peekAndSpawn(agentId): claimStep up to its SELECT
DaemonClaimSelect(agentId) ==
  /\ DaemonTicks
  /\ DaemonMonitors
  /\ sel["daemon"] = NULL
  /\ Held < MaxWorkers
  /\ LET d == IF cleanupDue THEN cleanupAbandonedSteps(DB) ELSE DB
     IN  \/ /\ ClaimCandidates(d, agentId) = {}
            /\ DaemonLoopBranch(d, agentId)
            /\ sel' = sel
         \/ \E s \in ClaimCandidates(d, agentId) :
              /\ Commit(d)
              /\ sel' = [sel EXCEPT !["daemon"] = s]
              /\ inflight' = inflight
  /\ cleanupDue' = FALSE
  /\ UNCHANGED <<workers, advCall, isShuttingDown, ctl, workflowCache, verifying>>

\* the rest of claimStep, then spawnForClaimed up to the awaited spawn
DaemonClaimFinish ==
  /\ sel["daemon"] # NULL
  /\ LET s == sel["daemon"]
         d == claimStepFinish(DB, s)
     IN  /\ IF d.res.found
              THEN /\ Commit(d)
                   /\ inflight' = inflight \cup {[step |-> s, story |-> NULL]}
              ELSE DaemonLoopBranch(d, steps[s].agent)
         /\ verifying' = HandedToVerifier(d, s)
  /\ sel' = [sel EXCEPT !["daemon"] = NULL]
  /\ UNCHANGED <<workers, cleanupDue, advCall, isShuttingDown, ctl, workflowCache>>

\* the Gateway accepted the spawn: a worker holding the step id is alive
SpawnSucceeds(c) ==
  /\ c \in inflight
  /\ Commit(spawnConfirm(DB, c))
  /\ inflight' = inflight \ {c}
  /\ workers' = [workers EXCEPT ![c.step] = @ + 1]
  /\ UNCHANGED <<sel, cleanupDue, advCall, isShuttingDown, ctl, workflowCache, verifying>>

SpawnFails(c) ==
  /\ c \in inflight
  /\ Commit(spawnRollback(DB, c))
  /\ inflight' = inflight \ {c}
  /\ UNCHANGED <<sel, workers, cleanupDue, advCall, isShuttingDown, ctl, workflowCache, verifying>>

\* a worker runs `antfarm step complete <stepId>` with its report
WorkerCompletes(s, o) ==
  /\ workers[s] > 0
  /\ Len(stories) + o.nstories <= MaxStories
  /\ Commit(completeStep(DB, s, o))
  /\ workers' = [workers EXCEPT ![s] = @ - 1]
  /\ UNCHANGED <<sel, inflight, cleanupDue, advCall, isShuttingDown, ctl, workflowCache, verifying>>

\* a worker runs `antfarm step fail <stepId> <error>`
WorkerFails(s) ==
  /\ workers[s] > 0
  /\ Commit(failStep(DB, s))
  /\ workers' = [workers EXCEPT ![s] = @ - 1]
  /\ UNCHANGED <<sel, inflight, cleanupDue, advCall, isShuttingDown, ctl, workflowCache, verifying>>

\* a worker dies without reporting
WorkerLost(s) ==
  /\ workers[s] > 0
  /\ workers' = [workers EXCEPT ![s] = @ - 1]
  /\ UNCHANGED <<runs, steps, stories, recency, sessions, sel, inflight, cleanupDue, advCall, isShuttingDown, ctl, workflowCache, verifying>>

StopWorkflow(r) ==
  /\ Commit(stopWorkflow(DB, r))
  /\ UNCHANGED <<sel, inflight, workers, cleanupDue, advCall, isShuttingDown, ctl, workflowCache, verifying>>

ResumeWorkflow(r) ==
  /\ Commit(resumeWorkflow(DB, r))
  /\ UNCHANGED <<sel, inflight, workers, cleanupDue, advCall, isShuttingDown, ctl, workflowCache, verifying>>

\* the daemon's 2-minute timer
SweepTimer ==
  /\ DaemonTicks
  /\ Commit(cleanupStaleClaimingState(cleanupAbandonedSteps(DB)))
  /\ UNCHANGED <<sel, inflight, workers, cleanupDue, advCall, isShuttingDown, ctl, workflowCache, verifying>>

\* the daemon's 10-minute timer
StaleSessionsTimer ==
  /\ DaemonTicks
  /\ \E afterMidnight \in SUBSET {x \in sessions : x.age < SessionStaleAge} :
       Commit(cleanupStaleSessions(DB, afterMidnight))
  /\ UNCHANGED <<sel, inflight, workers, cleanupDue, advCall, isShuttingDown, ctl, workflowCache, verifying>>

\* a row that is one period older; past the last threshold it is compared
\* with, its age stays
Older(a, last) == IF a < last THEN a + 1 ELSE a

\* updated_at is compared with the clock only for rows that are claiming or
\* running, and every statement that writes one of these statuses also
\* writes updated_at: the age of the other rows is not tracked
Timed == {"claiming", "running"}

\* time passes: the rows get older and the daemon's throttle expires
TimePasses ==
  /\ steps' = [s \in DOMAIN steps |->
                 IF steps[s].status \in Timed
                   THEN [steps[s] EXCEPT !.age = Older(@, AbandonedAge)] ELSE steps[s]]
  /\ stories' = [y \in DOMAIN stories |->
                   IF stories[y].status \in Timed
                     THEN [stories[y] EXCEPT !.age = Older(@, AbandonedAge)]
                     ELSE stories[y]]
  /\ sessions' = {[x EXCEPT !.age = Older(@, SessionOldAge)] : x \in sessions}
  /\ cleanupDue' = TRUE
  /\ UNCHANGED <<runs, recency, sel, inflight, workers, advCall, isShuttingDown, ctl, workflowCache, verifying>>

\* runWorkflow has committed its INSERTs and awaits the scheduler (the
\* daemon's start, or the cron setup); the start throws and the catch block
\* runs UPDATE runs SET status = 'failed'
SchedulerStartFails(r) ==
  /\ \E wf \in Workflows \cup VerifyWorkflows :
       /\ runs = runWorkflow(wf, r, runs[r].scheduler).runs
       /\ steps = runWorkflow(wf, r, runs[r].scheduler).steps
  /\ Held = 0
  /\ Commit(SetRunStatus(DB, r, "failed"))
  /\ UNCHANGED <<sel, inflight, workers, cleanupDue, advCall, isShuttingDown, ctl, workflowCache, verifying>>

\* the reports of step s that are under way
Reporting(s) == Cardinality({p \in Reporters : advCall[p].step = s})

\* a worker runs `antfarm step complete <stepId>`: completeStep up to the
\* SELECTs of advancePipeline
CompleteBegin(p, s, o) ==
  /\ advCall[p] = NoCall
  /\ workers[s] > Reporting(s)
  /\ Len(stories) + o.nstories <= MaxStories
  /\ CompletesAsSingle(DB, s)
  /\ LET d == completeStepDone(DB, s, o)
     IN  /\ Commit(d)
         /\ advCall' = [advCall EXCEPT ![p] =
                          [step |-> s, run |-> d.steps[s].run,
                           rd |-> advanceRead(d, d.steps[s].run)]]
  /\ UNCHANGED <<sel, inflight, workers, cleanupDue, isShuttingDown, ctl, workflowCache, verifying>>

\* the UPDATE of that advancePipeline call; the reporting process exits
AdvanceEnd(p) ==
  /\ advCall[p] # NoCall
  /\ Commit(advanceWrite(DB, advCall[p].run, advCall[p].rd))
  /\ advCall' = [advCall EXCEPT ![p] = NoCall]
  /\ workers' = [workers EXCEPT ![advCall[p].step] = @ - 1]
  /\ UNCHANGED <<sel, inflight, cleanupDue, isShuttingDown, ctl, workflowCache, verifying>>

\* the engine, the spawner, the workers and the operator, with no time passing
Next ==
  \/ \E a \in Agents : CliClaimSelect(a)
  \/ CliClaimFinish
  \/ \E a \in Agents : DaemonClaimSelect(a)
  \/ DaemonClaimFinish
  \/ \E c \in inflight : SpawnSucceeds(c)
  \/ \E c \in inflight : SpawnFails(c)
  \/ \E s \in DOMAIN steps, o \in Outputs : WorkerCompletes(s, o)
  \/ \E s \in DOMAIN steps : WorkerFails(s)
  \/ \E r \in DOMAIN runs : StopWorkflow(r)
  \/ SweepTimer

Spec == Init /\ [][Next]_vars

\* a workflow with verify_each, with the daemon as the only claimer
NextDaemon ==
  \/ \E a \in Agents : DaemonClaimSelect(a)
  \/ DaemonClaimFinish
  \/ \E c \in inflight : SpawnSucceeds(c)
  \/ \E c \in inflight : SpawnFails(c)
  \/ \E s \in DOMAIN steps, o \in Outputs : WorkerCompletes(s, o)
  \/ \E s \in DOMAIN steps : WorkerFails(s)
  \/ \E r \in DOMAIN runs : StopWorkflow(r)
  \/ SweepTimer

SpecVerify == InitVerify /\ [][NextDaemon]_vars

\* the same operations and `workflow resume`, on the runs of workflows
\* without a loop step
\* the reports of workers whose STORIES_JSON block may be invalid or may
\* come after the run's stories were ingested
IngestOutputs ==
  InvalidOutputs \cup {OneStoryOutput} \cup {o \in Outputs : o.status = "done"}

\* the daemon and its workers, with those reports
NextIngest ==
  \/ \E a \in Agents : DaemonClaimSelect(a)
  \/ DaemonClaimFinish
  \/ \E c \in inflight : SpawnSucceeds(c)
  \/ \E s \in DOMAIN steps, o \in IngestOutputs : WorkerCompletes(s, o)
  \/ \E s \in DOMAIN steps : WorkerFails(s)
  \/ \E r \in DOMAIN runs : StopWorkflow(r)

SpecIngest == Init /\ [][NextIngest]_vars

\* SIGTERM or SIGINT reaches the daemon between two of its callbacks: the
\* handler sets the flag, clears the timers and exits the process, so the
\* spawns it awaited are never confirmed nor rolled back; a gateway call
\* already executed may still start its worker
Shutdown ==
  /\ ~isShuttingDown
  /\ sel["daemon"] = NULL
  /\ isShuttingDown' = TRUE
  /\ inflight' = {}
  /\ \E started \in SUBSET inflight :
       workers' = [s \in DOMAIN workers |->
                     workers[s] + Cardinality({c \in started : c.step = s})]
  /\ UNCHANGED <<runs, steps, stories, recency, sessions, sel, cleanupDue, advCall, ctl, workflowCache, verifying>>

\* the daemon until it is signalled, its workers and `workflow stop`
NextShutdown ==
  \/ \E a \in Agents : DaemonClaimSelect(a)
  \/ DaemonClaimFinish
  \/ \E c \in inflight : SpawnSucceeds(c)
  \/ \E c \in inflight : SpawnFails(c)
  \/ \E s \in DOMAIN steps, o \in Outputs : WorkerCompletes(s, o)
  \/ \E r \in DOMAIN runs : StopWorkflow(r)
  \/ SweepTimer
  \/ Shutdown

SpecShutdown == Init /\ [][NextShutdown]_vars

\* the daemon and the cron agents of `step claim` on the two runs of
\* InitTwoRuns, with workers that report without stories
NextIsolation ==
  \/ \E a \in Agents : CliClaimSelect(a)
  \/ CliClaimFinish
  \/ \E a \in Agents : DaemonClaimSelect(a)
  \/ DaemonClaimFinish
  \/ \E c \in inflight : SpawnSucceeds(c)
  \/ \E c \in inflight : SpawnFails(c)
  \/ \E s \in DOMAIN steps, o \in Outputs : o.nstories = 0 /\ WorkerCompletes(s, o)

SpecIsolation == InitTwoRuns /\ [][NextIsolation]_vars

NextResume ==
  \/ Next
  \/ \E r \in DOMAIN runs : ResumeWorkflow(r)

SpecResume == InitSteps /\ [][NextResume]_vars

\* the daemon alone with its timers, while time passes and the workers it
\* spawns fail or die without reporting
\* `antfarm daemon start` up to its one-second wait: an alive daemon's PID is
\* returned, otherwise the daemon script is spawned detached
StartDaemonBegin(p) ==
  /\ ctl.pc[p] = "idle"
  /\ LET r == isRunning(ctl)
     IN  ctl' = IF r.running
                  THEN [r.c EXCEPT !.pc[p] = "returned", !.ret[p] = r.pid]
                  ELSE [r.c EXCEPT !.pc[p] = "waiting", !.daemon[p] = "booting"]
  /\ UNCHANGED <<runs, steps, stories, recency, sessions, sel, inflight, workers,
                 cleanupDue, advCall, isShuttingDown, workflowCache, verifying>>

\* the spawned script reaches startDaemon: it writes its PID over whatever
\* the PID file holds
DaemonWritesPid(p) ==
  /\ ctl.daemon[p] = "booting"
  /\ ctl' = [ctl EXCEPT !.daemon[p] = "alive", !.pidFile = p]
  /\ UNCHANGED <<runs, steps, stories, recency, sessions, sel, inflight, workers,
                 cleanupDue, advCall, isShuttingDown, workflowCache, verifying>>

\* `antfarm daemon start` after its wait: the PID isRunning finds, or an error
StartDaemonConfirm(p) ==
  /\ ctl.pc[p] = "waiting"
  /\ LET r == isRunning(ctl)
     IN  ctl' = IF r.running
                  THEN [r.c EXCEPT !.pc[p] = "returned", !.ret[p] = r.pid]
                  ELSE [r.c EXCEPT !.pc[p] = "threw"]
  /\ UNCHANGED <<runs, steps, stories, recency, sessions, sel, inflight, workers,
                 cleanupDue, advCall, isShuttingDown, workflowCache, verifying>>

\* SIGTERM or SIGINT reaches a daemon whose handlers are installed: it
\* unlinks the PID file if there is one and exits
DaemonSignalled(p) ==
  /\ ctl.daemon[p] = "alive"
  /\ ctl' = [ctl EXCEPT !.daemon[p] = "dead", !.pidFile = "none"]
  /\ UNCHANGED <<runs, steps, stories, recency, sessions, sel, inflight, workers,
                 cleanupDue, advCall, isShuttingDown, workflowCache, verifying>>

\* a daemon process dies without running its handlers
DaemonCrashes(p) ==
  /\ p \in LiveDaemons(ctl)
  /\ ctl' = [ctl EXCEPT !.daemon[p] = "dead"]
  /\ UNCHANGED <<runs, steps, stories, recency, sessions, sel, inflight, workers,
                 cleanupDue, advCall, isShuttingDown, workflowCache, verifying>>

\* start requests and the daemons they spawn on one host
NextDaemonctl ==
  \/ \E p \in Starters : StartDaemonBegin(p)
  \/ \E p \in Starters : DaemonWritesPid(p)
  \/ \E p \in Starters : StartDaemonConfirm(p)
  \/ \E p \in Starters : DaemonSignalled(p)
  \/ \E p \in Starters : DaemonCrashes(p)

SpecDaemonctl == InitSteps /\ [][NextDaemonctl]_vars

\* `antfarm step complete` of the last story is killed after
\* checkLoopContinuation's UPDATE of the loop step to done and before its
\* call of advancePipeline: completeStep runs in no transaction
CompleterDies(s, o) ==
  /\ workers[s] > 0
  /\ o.nstories = 0
  /\ steps[s].type = "loop" /\ steps[s].cur # NULL /\ ~steps[s].verifyEach
  /\ runs[steps[s].run].status \notin CompleteGuardStatuses
  /\ LET r  == steps[s].run
         d1 == SetCtx(DB, r, parseOutputKeyValues(o))
         d3 == emitEvent(UpdStory(d1, steps[s].cur, [status |-> "done"]),
                         "story.done", r, s)
         d4 == UpdStep(d3, s, [cur |-> NULL])
     IN  /\ StoriesIn(d4, r, "pending") = {}
         /\ StoriesIn(d4, r, "failed") = {}
         /\ Commit(UpdStep(d4, s, [status |-> "done"]))
  /\ workers' = [workers EXCEPT ![s] = @ - 1]
  /\ UNCHANGED <<sel, inflight, cleanupDue, advCall, isShuttingDown, ctl, workflowCache, verifying>>

\* the daemon with its cleanup timer and workers whose report may be cut short
NextStuck ==
  \/ \E a \in Agents : DaemonClaimSelect(a)
  \/ DaemonClaimFinish
  \/ \E c \in inflight : SpawnSucceeds(c)
  \/ \E s \in DOMAIN steps, o \in Outputs : o.status = "done" /\ WorkerCompletes(s, o)
  \/ \E s \in DOMAIN steps, o \in Outputs : o.status = "done" /\ CompleterDies(s, o)
  \/ \E s \in DOMAIN steps : WorkerFails(s)
  \/ SweepTimer

\* the cleanup timer fires every 2 minutes while the daemon runs: weak
\* fairness of SweepTimer, whose steps are those of a sweep that changes a row
SweepChanges ==
  /\ DaemonTicks
  /\ LET d == cleanupStaleClaimingState(cleanupAbandonedSteps(DB))
     IN  <<d.runs, d.steps, d.stories, d.recency, d.sessions>>
           # <<runs, steps, stories, recency, sessions>>

FairStuck ==
  \/ []<>(~SweepChanges)
  \/ []<><<SweepTimer>>_vars

SpecStuck == Init /\ [][NextStuck]_vars /\ FairStuck

\* workflow.yml is edited
FileChanges(content) ==
  /\ content # workflowCache.file
  /\ workflowCache' = [workflowCache EXCEPT !.file = content]
  /\ UNCHANGED <<runs, steps, stories, recency, sessions, sel, inflight, workers,
                 cleanupDue, advCall, isShuttingDown, ctl, verifying>>

\* CACHE_TTL_MS passes since the entry was stored
CacheTtlExpires ==
  /\ workflowCache.entry # NoEntry
  /\ ~workflowCache.entry.expired
  /\ workflowCache' = [workflowCache EXCEPT !.entry.expired = TRUE]
  /\ UNCHANGED <<runs, steps, stories, recency, sessions, sel, inflight, workers,
                 cleanupDue, advCall, isShuttingDown, ctl, verifying>>

\* getCachedWorkflow up to its return on a hit, or up to the file read of the
\* awaited loadWorkflowSpec on a miss
GetCachedBegin ==
  /\ workflowCache.loading = "none"
  /\ workflowCache' =
       IF CacheHit(workflowCache) THEN workflowCache
       ELSE [workflowCache EXCEPT !.loading = loadWorkflowSpec(workflowCache.file)]
  /\ UNCHANGED <<runs, steps, stories, recency, sessions, sel, inflight, workers,
                 cleanupDue, advCall, isShuttingDown, ctl, verifying>>

\* getCachedWorkflow after the await: the checksum is computed from the file
\* as it is now and the entry is stored with the spec that was loaded
GetCachedStore ==
  /\ workflowCache.loading # "none"
  /\ workflowCache' =
       [workflowCache EXCEPT
          !.entry = [spec |-> workflowCache.loading,
                     checksum |-> calculateChecksum(workflowCache.file),
                     expired |-> FALSE],
          !.loading = "none"]
  /\ UNCHANGED <<runs, steps, stories, recency, sessions, sel, inflight, workers,
                 cleanupDue, advCall, isShuttingDown, ctl, verifying>>

\* the daemon's spec cache while workflow.yml is edited
NextCache ==
  \/ \E content \in FileContents : FileChanges(content)
  \/ CacheTtlExpires
  \/ GetCachedBegin
  \/ GetCachedStore

SpecCache == InitSteps /\ [][NextCache]_vars

\* less time than CLEANUP_THROTTLE_MS passes since the sweep of the daemon's
\* last claimStep: the rows that were about to reach the abandonment
\* threshold (each against its own updated_at) reach it, the throttle of
\* claimStep does not elapse
ShortTimePasses ==
  /\ steps' = [s \in DOMAIN steps |->
                 IF steps[s].status \in Timed /\ steps[s].age = AbandonedAge - 1
                   THEN [steps[s] EXCEPT !.age = AbandonedAge] ELSE steps[s]]
  /\ stories' = [y \in DOMAIN stories |->
                   IF stories[y].status \in Timed /\ stories[y].age = AbandonedAge - 1
                     THEN [stories[y] EXCEPT !.age = AbandonedAge]
                     ELSE stories[y]]
  /\ UNCHANGED <<runs, recency, sessions, sel, inflight, workers, cleanupDue, advCall,
                 isShuttingDown, ctl, workflowCache, verifying>>

\* every caller of cleanupAbandonedSteps: the claimStep of the daemon and of
\* `step claim` processes and the daemon's cleanup timer, while workers are
\* lost and time passes in short and long stretches
NextThrottle ==
  \/ \E a \in Agents : CliClaimSelect(a)
  \/ CliClaimFinish
  \/ \E a \in Agents : DaemonClaimSelect(a)
  \/ DaemonClaimFinish
  \/ \E c \in inflight : SpawnSucceeds(c)
  \/ \E s \in DOMAIN steps : WorkerLost(s)
  \/ SweepTimer
  \/ TimePasses
  \/ ShortTimePasses

SpecThrottle == InitSteps /\ [][NextThrottle]_vars

NextSweep ==
  \/ \E a \in Agents : DaemonClaimSelect(a)
  \/ DaemonClaimFinish
  \/ \E c \in inflight : SpawnSucceeds(c)
  \/ \E c \in inflight : SpawnFails(c)
  \/ \E s \in DOMAIN steps : WorkerFails(s)
  \/ \E s \in DOMAIN steps : WorkerLost(s)
  \/ \E r \in DOMAIN runs : StopWorkflow(r)
  \/ SweepTimer
  \/ StaleSessionsTimer
  \/ TimePasses

SpecSweep == Init /\ [][NextSweep]_vars

\* the daemon with its timers, on a run whose scheduler may fail to start
NextStart ==
  \/ NextSweep
  \/ \E r \in DOMAIN runs : SchedulerStartFails(r)

SpecStart == Init /\ [][NextStart]_vars

\* the reports of the workers of a verify_each workflow: a verifier may
\* report STATUS: retry without an ISSUES line
VerifyOutputs ==
  Outputs \cup {[status |-> "retry", issues |-> FALSE, nstories |-> 0, bad |-> 0]}

\* the daemon and the workers it spawns on a verify_each workflow, every
\* spawn succeeding and every worker reporting
NextFeedback ==
  \/ \E a \in Agents : DaemonClaimSelect(a)
  \/ DaemonClaimFinish
  \/ \E c \in inflight : SpawnSucceeds(c)
  \/ \E s \in DOMAIN steps, o \in VerifyOutputs : WorkerCompletes(s, o)

SpecFeedback == InitVerify /\ [][NextFeedback]_vars

\* step s is the verify step of its run's verify_each loop
IsVerifyStep(d, s) ==
  LET L == LoopStepOf(d, d.steps[s].run)
  IN  L # NULL /\ d.steps[L].verifyEach /\ d.steps[L].verifyStep = s

\* a report that keeps the verification within the retry budget: a verifier
\* reports STATUS: retry only for a story that has a retry left
WithinBudget(d, s, o) ==
  (IsVerifyStep(d, s) /\ o.status = "retry") =>
    LET last == LastDoneStory(d, d.steps[s].run)
    IN  last # NULL /\ ~RetryExhausted(d.stories[last].retry_count + 1,
                                        d.stories[last].max_retries)

LiveCompletes(s, o) ==
  /\ WithinBudget(DB, s, o)
  /\ WorkerCompletes(s, o)

\* the daemon and the workers it spawns on a verify_each workflow: every
\* spawn succeeds, every worker reports completion, every verification
\* passes within the retry budget
NextLive ==
  \/ \E a \in Agents : DaemonClaimSelect(a)
  \/ DaemonClaimFinish
  \/ \E c \in inflight : SpawnSucceeds(c)
  \/ \E s \in DOMAIN steps, o \in Outputs : LiveCompletes(s, o)

\* the daemon's polling timer keeps firing for every agent, an awaited spawn
\* returns, a worker alive reports
FairLive ==
  /\ \A a \in Agents : WF_vars(DaemonClaimSelect(a))
  /\ WF_vars(DaemonClaimFinish)
  /\ WF_vars(\E c \in inflight : SpawnSucceeds(c))
  /\ WF_vars(\E s \in DOMAIN steps, o \in Outputs : LiveCompletes(s, o))

SpecLive == InitVerify /\ [][NextLive]_vars /\ FairLive

\* the daemon and the workers it spawns on a verify_each workflow, one unit
\* of work after the other: the worker reports completion or failure, or a
\* developer's worker dies, and then a long time passes before the sweep
NextRetry ==
  \/ \E a \in Agents : Held = 0 /\ DaemonClaimSelect(a)
  \/ DaemonClaimFinish
  \/ \E c \in inflight : SpawnSucceeds(c)
  \/ \E s \in DOMAIN steps, o \in Outputs : WorkerCompletes(s, o)
  \/ \E s \in DOMAIN steps : WorkerFails(s)
  \/ \E s \in DOMAIN steps : steps[s].type = "loop" /\ WorkerLost(s)
  \/ Held = 0 /\ SweepTimer
  \/ Held = 0 /\ TimePasses

SpecRetry == InitVerify /\ [][NextRetry]_vars

\* the rows the stale-claim sweep is about: in claiming for more than 5 minutes
StaleSteps == {s \in DOMAIN steps : steps[s].status = "claiming" /\ steps[s].age >= StaleAge}
StaleStories ==
  {y \in DOMAIN stories : stories[y].status = "claiming" /\ stories[y].age >= StaleAge}

\* the daemon alone with its timers, its 10-minute timer firing as long as
\* it runs
FairSessions == WF_vars(StaleSessionsTimer)

SpecSessions == Init /\ [][NextSweep]_vars /\ FairSessions

\* the reports STATUS: done, with or without a STORIES_JSON block
DoneOutputs == {o \in Outputs : o.status = "done"}

\* the daemon on the runs of the workflows while time passes: its claims
\* await their spawn for as long as the Gateway takes, its 2-minute timer
\* fires, and of the workers only those of single steps report
NextStale ==
  \/ \E a \in Agents : DaemonClaimSelect(a)
  \/ DaemonClaimFinish
  \/ \E c \in inflight : SpawnSucceeds(c)
  \/ \E s \in DOMAIN steps, o \in DoneOutputs :
       steps[s].type = "single" /\ WorkerCompletes(s, o)
  \/ SweepTimer
  \/ TimePasses

SpecStale == Init /\ [][NextStale]_vars

\* spawnForClaimed throws before its try block (agent not found, claim
\* without runId or resolvedInput), or the daemon is killed while the spawn is
\* awaited: neither the success nor the rollback transaction runs
SpawnerDies(c) ==
  /\ c \in inflight
  /\ inflight' = inflight \ {c}
  /\ UNCHANGED <<runs, steps, stories, recency, sessions, sel, workers, cleanupDue, advCall, isShuttingDown, ctl, workflowCache, verifying>>

\* the daemon's claims on a verify_each workflow, one unit of work after the
\* other, and what becomes of them: the spawn succeeds, a story's spawn
\* also fails or is lost with the spawner (while the story has retries left),
\* the run is stopped meanwhile
NextClaiming ==
  \/ \E a \in Agents : Held = 0 /\ DaemonClaimSelect(a)
  \/ DaemonClaimFinish
  \/ \E c \in inflight : SpawnSucceeds(c)
  \/ \E c \in inflight : c.story # NULL /\ SpawnFails(c)
  \/ \E c \in inflight :
       /\ c.story # NULL /\ stories[c.story].retry_count < STORY_MAX_RETRIES
       /\ SpawnerDies(c)
  \/ \E s \in DOMAIN steps, o \in Outputs : WorkerCompletes(s, o)
  \/ \E r \in DOMAIN runs : StopWorkflow(r)
  \/ Held = 0 /\ SweepTimer
  \/ Held = 0 /\ TimePasses

\* the polling timer fires and claimStep runs to its end; the awaited spawn
\* returns or throws; the workers report; the clock advances; the daemon's
\* setInterval fires the 2-minute sweep while its SELECTs find a row that
\* has been claiming for more than 5 minutes.  Except for the clock, the
\* condition is stated on the guard of the step.
FairClaiming ==
  /\ \A a \in Agents :
       \/ []<>(~(DaemonMonitors /\ sel["daemon"] = NULL /\ Held = 0))
       \/ []<><<Held = 0 /\ DaemonClaimSelect(a)>>_vars
  /\ \/ []<>(sel["daemon"] = NULL)
     \/ []<><<DaemonClaimFinish>>_vars
  /\ \/ []<>(inflight = {})
     \/ []<><<\E c \in inflight : SpawnSucceeds(c) \/ (c.story # NULL /\ SpawnFails(c))>>_vars
  /\ \/ []<>(Alive = 0)
     \/ []<><<\E s \in DOMAIN steps, o \in Outputs : WorkerCompletes(s, o)>>_vars
  /\ WF_vars(Held = 0 /\ TimePasses)
  /\ \/ []<>(~(/\ Held = 0
               /\ (StaleClaimingSteps(DB) \cup StaleClaimingStories(DB)) # {}))
     \/ []<><<Held = 0 /\ SweepTimer>>_vars

SpecClaiming == InitVerify /\ [][NextClaiming]_vars /\ FairClaiming

\* the daemon, whose process may die while it awaits a spawn, its workers and
\* its cleanup timer, one unit of work at a time
NextBudget ==
  \/ \E a \in Agents : Held = 0 /\ DaemonClaimSelect(a)
  \/ DaemonClaimFinish
  \/ \E c \in inflight : SpawnSucceeds(c)
  \/ \E c \in inflight :
       /\ c.story # NULL /\ stories[c.story].retry_count <= STORY_MAX_RETRIES
       /\ SpawnerDies(c)
  \/ \E s \in DOMAIN steps, o \in Outputs : WorkerCompletes(s, o)
  \/ \E s \in DOMAIN steps : WorkerFails(s)
  \/ Held = 0 /\ SweepTimer
  \/ Held = 0 /\ TimePasses

SpecBudget == InitVerify /\ [][NextBudget]_vars

\* the reports STATUS: done with no other key
PlainOutputs == {o \in Outputs : o.status = "done" /\ o.nstories = 0}

\* the daemon and the workers it spawns on a run of single steps, while time
\* passes, each `step complete` taking two steps
NextAdvance ==
  \/ \E a \in Agents : DaemonClaimSelect(a)
  \/ DaemonClaimFinish
  \/ \E c \in inflight : SpawnSucceeds(c)
  \/ \E p \in Reporters, s \in DOMAIN steps, o \in PlainOutputs : CompleteBegin(p, s, o)
  \/ \E p \in Reporters : AdvanceEnd(p)
  \/ SweepTimer
  \/ TimePasses

SpecAdvance == InitSteps /\ [][NextAdvance]_vars

TypeOK ==
  /\ \A r \in DOMAIN runs : runs[r].status \in {"running"} \cup TerminalStatuses
  /\ \A s \in DOMAIN steps :
       steps[s].status \in {"waiting", "pending", "claiming", "running", "done", "failed"}
  /\ \A y \in DOMAIN stories :
       stories[y].status \in {"pending", "claiming", "running", "done", "failed"}

----------------------------------------------------------------------------
(* Properties *)

RunOf(s) == steps[s].run

\* a worker holding step s can report o now
CanReport(s, o) == workers[s] > 0 /\ Len(stories) + o.nstories <= MaxStories

\* the calls of the engine that can happen in the current state, each as the
\* database it leaves behind
EngineCalls ==
  {completeStep(DB, s, o) : s \in {x \in DOMAIN steps : workers[x] > 0},
                            o \in {x \in Outputs : Len(stories) + x.nstories <= MaxStories}}
    \cup {claimStepFinish(DB, sel[p]) : p \in {q \in DOMAIN sel : sel[q] # NULL}}
    \cup {cleanupAbandonedSteps(DB)}

\* C1: once a run's status is completed, failed or cancelled, no operation
\* changes that run's status again.
C1_TerminalAbsorbing ==
  [][\A r \in DOMAIN runs :
       runs[r].status \in TerminalStatuses => runs'[r].status = runs[r].status]_vars

\* C2: completeStep for a step whose run is failed, cancelled or completed
\* returns {advanced: false, run_completed: false}, keeps the run's status
\* and context, changes no step or story, does not advance the pipeline and
\* emits no event.
C2_CompleteOnTerminalRunIsNoOp ==
  \A s \in DOMAIN steps, o \in Outputs :
    (CanReport(s, o) /\ runs[RunOf(s)].status \in TerminalStatuses) =>
      LET d == completeStep(DB, s, o)
      IN  /\ d.res = AdvRes(FALSE, FALSE)
          /\ d.runs = runs
          /\ d.steps = steps
          /\ d.stories = stories
          /\ \A call \in d.adv : ~call.promoted /\ ~call.completed
          /\ d.ev = {}

\* C3: for a terminal run, failStep, every sweeper pass and the spawner's
\* confirm and rollback transactions leave the run row and all of its step
\* and story rows unchanged.
C3_TerminalRunFrame ==
  \A r \in DOMAIN runs :
    runs[r].status \in TerminalStatuses =>
      LET same(d) == /\ d.runs[r] = runs[r]
                     /\ \A s \in StepsOf(DB, r) : d.steps[s] = steps[s]
                     /\ StoriesOf(d, r) = StoriesOf(DB, r)
                     /\ \A y \in StoriesOf(DB, r) : d.stories[y] = stories[y]
      IN  /\ \A s \in StepsOf(DB, r) : workers[s] > 0 => same(failStep(DB, s))
          /\ same(cleanupAbandonedSteps(DB))
          /\ same(cleanupStaleClaimingState(DB))
          /\ \A c \in inflight :
               RunOf(c.step) = r => same(spawnConfirm(DB, c)) /\ same(spawnRollback(DB, c))

\* C4: a successful claimStep moves the selected step from pending to
\* claiming, and a successful claimStory moves the selected story from
\* pending to claiming: the claimed row is claiming, not running, when the
\* claim returns.
C4_ClaimLeavesClaiming ==
  /\ \A p \in DOMAIN sel :
       sel[p] # NULL =>
         LET d == claimStepFinish(DB, sel[p])
         IN  d.res.found =>
               /\ d.steps[sel[p]].status = "claiming"
               /\ \A y \in DOMAIN stories : d.stories[y].status # "running"
                                              \/ stories[y].status = "running"
  /\ \A a \in Agents : \A L \in RunningLoopSteps(DB, a) :
       LET d == peekLoopBranch(DB, a, L)
       IN  d.claim # NULL =>
             stories[d.claim].status = "pending" /\ d.stories[d.claim].status = "claiming"

\* the callers a claim handed step s to and that have not given it back: the
\* spawns awaited for it and the workers on it
Holders(s) == Cardinality({c \in inflight : c.step = s}) + workers[s]

\* C5: whatever the interleaving of the claimers (daemon, cron agents,
\* `step claim` processes), a pending step is handed to at most one caller:
\* no step is held by two callers at once.
C5_ClaimsExclusive ==
  \A s \in DOMAIN steps : Holders(s) <= 1

\* C6: a claim followed by a failed spawn and its rollback leaves the step
\* pending with its retry_count unchanged; when a story was claimed, the
\* story is pending again and the loop step's current_story_id is null.
C6_ClaimRollbackRoundTrip ==
  /\ \A s \in DOMAIN steps :
       (sel["daemon"] = s /\ steps[s].status = "pending") =>
         LET d1 == claimStepFinish(DB, s)
             d2 == spawnRollback(d1, [step |-> s, story |-> NULL])
         IN  d1.res.found =>
               /\ d2.steps[s].status = "pending"
               /\ d2.steps[s].retry_count = steps[s].retry_count
  /\ \A a \in Agents : \A L \in RunningLoopSteps(DB, a) :
       LET d1 == peekLoopBranch(DB, a, L)
           d2 == spawnRollback(d1, [step |-> L, story |-> d1.claim])
       IN  d1.claim # NULL =>
             /\ d2.stories[d1.claim].status = "pending"
             /\ d2.stories[d1.claim].retry_count = stories[d1.claim].retry_count
             /\ d2.steps[L].cur = NULL

\* C7: when the run of a claimed step or story is cancelled while the spawn
\* is in flight, the spawn-success transaction that follows does not move
\* that step or story to running.
C7_NoRunningAfterCancel ==
  [][\A c \in inflight :
       (/\ c \in inflight'
        /\ runs[RunOf(c.step)].status = "running"
        /\ runs'[RunOf(c.step)].status = "cancelled") =>
         LET d == spawnConfirm(DB', c)
         IN  IF c.story = NULL
               THEN d.steps[c.step].status = "running"
                      => steps'[c.step].status = "running"
               ELSE d.stories[c.story].status = "running"
                      => stories'[c.story].status = "running"]_vars

ActiveSteps(r) ==
  {s \in StepsOf(DB, r) : steps[s].status \in {"pending", "claiming", "running"}}

\* the loop step s and its verify step, when s verifies each story
VerifyWindow(s) ==
  IF steps[s].type = "loop" /\ steps[s].verifyEach /\ steps[s].verifyStep # NULL
    THEN {s, steps[s].verifyStep}
    ELSE {s}

\* C8: each run has at most one step that is pending, claiming or running,
\* except a loop step together with its verify step in the verify-each
\* window.
C8_OneActiveStep ==
  \A r \in DOMAIN runs :
    \/ Cardinality(ActiveSteps(r)) <= 1
    \/ \E s \in ActiveSteps(r) : ActiveSteps(r) = VerifyWindow(s)

ClaimingSteps(r) == {s \in StepsOf(DB, r) : steps[s].status = "claiming"}

C10_AdvanceBlockedByIncomplete ==
  \A d \in EngineCalls :
    \A call \in d.adv : call.before => ~call.promoted /\ ~call.completed

\* C11: advancePipeline is idempotent: after a call of the engine that
\* invoked advancePipeline on a run, invoking it once more on that run
\* leaves the run and its steps as they are.
C11_AdvanceIdempotent ==
  \A d \in EngineCalls :
    \A call \in d.adv :
      LET d2 == advancePipeline(d, call.run)
      IN  d2.runs = d.runs /\ d2.steps = d.steps

\* C12: concurrent invocations of advancePipeline on one run leave the run
\* and its steps as some sequential order of these invocations does: when
\* two calls have both made their SELECTs of the rows as they are now, their
\* UPDATEs lead to the state two calls made one after the other lead to.
C12_AdvanceLinearisable ==
  \A p \in Reporters, q \in Reporters :
    (/\ p # q
     /\ advCall[p] # NoCall /\ advCall[q] # NoCall
     /\ advCall[p].run = advCall[q].run
     /\ advCall[p].rd = advanceRead(DB, advCall[p].run)
     /\ advCall[q].rd = advanceRead(DB, advCall[q].run)) =>
      LET r    == advCall[p].run
          conc == advanceWrite(advanceWrite(DB, r, advCall[p].rd), r, advCall[q].rd)
          seq  == advancePipeline(advancePipeline(DB, r), r)
      IN  conc.runs = seq.runs /\ conc.steps = seq.steps

\* C13: whenever a run is completed, every step of that run is done.
C13_CompletedAllDone ==
  \A r \in DOMAIN runs :
    runs[r].status = "completed" => \A s \in StepsOf(DB, r) : steps[s].status = "done"

\* C14: whenever a run is failed, at least one step of that run is failed.
C14_FailedHasFailedStep ==
  \A r \in DOMAIN runs :
    runs[r].status = "failed" => \E s \in StepsOf(DB, r) : steps[s].status = "failed"

\* the stories of run r that are running or claiming
StoriesInWork(r) == StoriesIn(DB, r, "running") \cup StoriesIn(DB, r, "claiming")

\* C15: for every loop step L, L.current_story_id is non-null if and only if
\* exactly one story of its run is running or claiming.
C15_CurrentStoryIffOneInWork ==
  \A L \in DOMAIN steps :
    steps[L].type = "loop" =>
      (steps[L].cur # NULL <=> Cardinality(StoriesInWork(RunOf(L))) = 1)

\* the stories of the run of step s are all done
AllStoriesDone(d, s) ==
  \A y \in StoriesOf(d, d.steps[s].run) : d.stories[y].status = "done"

\* the loop steps that a step from the current state has just marked done
NewlyDone ==
  {L \in DOMAIN steps : steps[L].type = "loop" /\ steps[L].status # "done"
                          /\ steps'[L].status = "done"}

\* C16: a loop step becomes done only when every story of its run is done:
\* no operation marks it done while a story is pending, claiming, running or
\* failed.
C16_LoopDoneOnlyWhenStoriesDone ==
  [][\A L \in NewlyDone : AllStoriesDone(DB', L)]_vars

\* the loop step whose stories step v verifies (NULL: v is no verify step)
LoopVerifiedBy(v) ==
  LET L == LoopStepOf(DB, RunOf(v))
  IN  IF L # NULL /\ steps[L].verifyEach /\ steps[L].verifyStep = v THEN L ELSE NULL

\* C17: when the verify step of a verify-each loop completes with STATUS:
\* retry and the retries of the story just verified (the most recently done
\* story) are not exhausted, that story is pending again with retry_count
\* one higher, verify_feedback in the run context is the ISSUES value of the
\* report, else the whole report, the loop step is pending and the verify
\* step is waiting.
C17_VerifyRetry ==
  \A v \in DOMAIN steps, o \in VerifyOutputs :
    LET L    == LoopVerifiedBy(v)
        r    == RunOf(v)
        last == LastDoneStory(DB, r)
    IN  (/\ CanReport(v, o) /\ L # NULL
         /\ runs[r].status = "running"
         /\ o.status = "retry"
         /\ last # NULL
         /\ stories[last].retry_count + 1 <= stories[last].max_retries) =>
          LET d == completeStep(DB, v, o)
          IN  /\ d.stories[last].status = "pending"
              /\ d.stories[last].retry_count = stories[last].retry_count + 1
              /\ d.runs[r].ctx.verify_feedback = IF o.issues THEN "issues" ELSE "output"
              /\ d.steps[L].status = "pending"
              /\ d.steps[v].status = "waiting"

\* every story of run r is done, its loop step is done and r is completed
LoopFinished(r) ==
  /\ runs[r].status = "completed"
  /\ \A y \in StoriesOf(DB, r) : stories[y].status = "done"
  /\ \A s \in StepsOf(DB, r) : steps[s].type = "loop" => steps[s].status = "done"

\* C18: in a verify-each loop in which every spawned worker reports
\* completion and every verification passes within the retry budget,
\* eventually every story is done, the loop step is done and the run is
\* completed.
C18_LoopEventuallyFinishes ==
  \A r \in {1} : <>LoopFinished(r)

\* story y has used up its retries
NoRetryLeft(y) == stories[y].retry_count = stories[y].max_retries

\* in database d, story y, loop step L and their run are failed
AllFailed(d, y, L) ==
  /\ d.stories[y].status = "failed"
  /\ d.steps[L].status = "failed"
  /\ d.runs[d.steps[L].run].status = "failed"

\* C19: a story whose retry_count equals max_retries and that fails once
\* more, by failStep, by a STATUS: retry of the verify step or by
\* abandonment, becomes failed, not pending, and its loop step and run
\* become failed with it.
C19_ExhaustedStoryFails ==
  /\ \A L \in DOMAIN steps :
       (/\ workers[L] > 0 /\ steps[L].type = "loop"
        /\ steps[L].cur # NULL /\ NoRetryLeft(steps[L].cur)) =>
         AllFailed(failStep(DB, L), steps[L].cur, L)
  /\ \A v \in DOMAIN steps, o \in Outputs :
       LET L    == LoopVerifiedBy(v)
           last == LastDoneStory(DB, RunOf(v))
       IN  (/\ CanReport(v, o) /\ L # NULL /\ o.status = "retry"
            /\ runs[RunOf(v)].status = "running"
            /\ last # NULL /\ NoRetryLeft(last)) =>
             AllFailed(completeStep(DB, v, o), last, L)
  /\ \A L \in AbandonedSteps(DB) :
       (/\ steps[L].type = "loop"
        /\ steps[L].cur # NULL /\ NoRetryLeft(steps[L].cur)) =>
         AllFailed(cleanupAbandonedSteps(DB), steps[L].cur, L)

\* a story has failed on the retry after its last one, with its loop step
\* and its run
C19_Witness ==
  \E y \in DOMAIN stories, L \in DOMAIN steps :
    /\ steps[L].type = "loop" /\ steps[L].run = stories[y].run
    /\ stories[y].retry_count = stories[y].max_retries + 1
    /\ AllFailed(DB, y, L)

\* the single steps a sweep finds abandoned
AbandonedSingles == {s \in AbandonedSteps(DB) : steps[s].type = "single"}

\* C20: the sweep returns an abandoned single step to pending with
\* abandoned_count one higher and retry_count unchanged; on the fifth
\* abandonment, and not before, it makes the step and its run failed.  A
\* sweep makes a run failed only for a step on its fifth abandonment or for a
\* loop step whose story is out of retries.
C20_AbandonedSingleStep ==
  LET d == cleanupAbandonedSteps(DB)
  IN  /\ \A s \in AbandonedSingles :
           /\ d.steps[s].abandoned_count = steps[s].abandoned_count + 1
           /\ d.steps[s].retry_count = steps[s].retry_count
           /\ IF steps[s].abandoned_count + 1 < 5
                THEN d.steps[s].status = "pending"
                ELSE /\ d.steps[s].status = "failed"
                     /\ d.runs[RunOf(s)].status = "failed"
      /\ \A r \in DOMAIN runs :
           (runs[r].status # "failed" /\ d.runs[r].status = "failed") =>
             \E s \in AbandonedSteps(DB) :
               /\ steps[s].run = r
               /\ \/ steps[s].cur = NULL /\ steps[s].abandoned_count + 1 >= 5
                  \/ steps[s].cur # NULL /\ NoRetryLeft(steps[s].cur)

\* a single step is failed on its fifth abandonment, with its run
C20_Witness ==
  \E s \in DOMAIN steps :
    /\ steps[s].type = "single" /\ steps[s].status = "failed"
    /\ steps[s].abandoned_count = 5
    /\ runs[RunOf(s)].status = "failed"

\* C21: cleanupStaleClaimingState makes every step and story that has been
\* claiming for more than 5 minutes pending, adds one to its retry_count and
\* emits step.rollback or story.rollback for it; for a story it also clears
\* the current_story_id of the loop step that holds it.
C21_StaleClaimSweep ==
  LET d == cleanupStaleClaimingState(DB)
  IN  /\ \A s \in StaleSteps :
           /\ d.steps[s].status = "pending"
           /\ d.steps[s].retry_count = steps[s].retry_count + 1
           /\ \E e \in d.ev : e.event = "step.rollback" /\ e.step = s
      /\ \A y \in StaleStories :
           /\ d.stories[y].status = "pending"
           /\ d.stories[y].retry_count = stories[y].retry_count + 1
           /\ \E e \in d.ev : e.event = "story.rollback" /\ e.run = stories[y].run
           /\ \A L \in DOMAIN steps : steps[L].cur = y => d.steps[L].cur = NULL

\* C22: every step and story that is in claiming eventually is not: the
\* spawn confirms or rolls back, or the stale-claim sweep reverts it, also
\* when the spawner is lost after the claim or the run is stopped meanwhile.
C22_ClaimingIsLeft ==
  /\ \A s \in 1..3 :
       (s \in DOMAIN steps /\ steps[s].status = "claiming")
         ~> ~(s \in DOMAIN steps /\ steps[s].status = "claiming")
  /\ \A y \in 1..MaxStories :
       (y \in DOMAIN stories /\ stories[y].status = "claiming")
         ~> ~(y \in DOMAIN stories /\ stories[y].status = "claiming")

\* C23: the rollback of a failed spawn emits step.rollback (a step's claim)
\* or story.rollback (a story's claim) for the run, and leaves the
\* ActiveSession rows as they were.
C23_FailedSpawnRollsBack ==
  \A c \in inflight :
    LET d == spawnRollback(DB, c)
    IN  /\ \E e \in d.ev :
             /\ e.event = IF c.story # NULL THEN "story.rollback" ELSE "step.rollback"
             /\ e.run = RunOf(c.step)
        /\ d.sessions = sessions

\* C24: every ActiveSession row references a step that is running and, when
\* it names a story, a story that is running.
C24_SessionOnlyWhileRunning ==
  \A x \in sessions :
    /\ steps[x.step].status = "running"
    /\ x.story # NULL => stories[x.story].status = "running"

\* the ActiveSession row of step s and story y is older than 15 minutes
StaleSession(s, y) ==
  \E x \in sessions : x.step = s /\ x.story = y /\ x.age >= SessionStaleAge

DaemonRun(s) == runs[steps[s].run].scheduler = "daemon"

C26_SchedulerIsolation ==
  /\ sel["daemon"] # NULL => DaemonRun(sel["daemon"])
  /\ \A c \in inflight : DaemonRun(c.step)
  /\ \A x \in sessions : DaemonRun(x.step)

\* C27: once the shutdown flag is set the daemon starts no spawn: no
\* claimStep of the daemon selects a step, no claim is handed to the spawner
\* and no ActiveSession row is inserted
C27_NoSpawnAfterShutdown ==
  [][isShuttingDown =>
       /\ sel'["daemon"] = NULL
       /\ inflight' = {}
       /\ sessions' \subseteq sessions]_vars

\* the daemon has exited while a step it monitored is pending for an agent
C27_Witness ==
  /\ isShuttingDown
  /\ DaemonMonitors
  /\ \E a \in Agents : ClaimCandidates(DB, a) # {}

\* C28: the daemon tick never runs concurrently with itself: runDaemonLoop
\* awaits each peekAndSpawn in turn, so one invocation awaits at most one
\* spawn, and the daemon as a whole never awaits two spawns at once
C28_OneTickAtATime ==
  Cardinality(inflight) <= 1

\* C29: a completeStep whose STORIES_JSON block fails validation raises and
\* changes nothing: no story row is inserted, the run context is as before
\* and the step is still running
C29_InvalidStoriesNoChange ==
  \A s \in DOMAIN steps, o \in InvalidOutputs :
    (workers[s] > 0 /\ steps[s].status = "running") =>
      LET d == completeStep(DB, s, o)
      IN  d.res.threw =>
            /\ d.stories = stories
            /\ d.runs = runs
            /\ d.steps[s].status = "running"

\* C30: story ingestion is idempotent per run: a report with a STORIES_JSON
\* block, completed on a run that already has stories, leaves the run with
\* the story rows it had
C30_IngestionIdempotent ==
  \A s \in DOMAIN steps, o \in IngestOutputs :
    ( /\ workers[s] > 0
      /\ o.bad = 0 /\ o.nstories > 0
      /\ \E y \in DOMAIN stories : stories[y].run = steps[s].run ) =>
      DOMAIN completeStep(DB, s, o).stories = DOMAIN stories

\* C31: a step's status moves only forward along waiting, pending, claiming,
\* running, done|failed; the only backward transitions are claiming to
\* pending (rollback) and failed to pending (retry reset)
StatusRank(st) ==
  CASE st = "waiting" -> 0
    [] st = "pending" -> 1
    [] st = "claiming" -> 2
    [] st = "running" -> 3
    [] OTHER -> 4

AllowedBackward == {<<"claiming", "pending">>, <<"failed", "pending">>}

C31_StatusMonotone ==
  [][\A s \in DOMAIN steps :
       \/ StatusRank(steps'[s].status) >= StatusRank(steps[s].status)
       \/ <<steps[s].status, steps'[s].status>> \in AllowedBackward]_vars

\* C32: stopWorkflow on a run that is neither completed nor cancelled sets
\* the run to cancelled and every waiting, pending, claiming or running step
\* of the run to failed, leaving its done and failed steps as they were, so
\* that no step of the run is left waiting, pending, claiming or running
NonTerminal == {"waiting", "pending", "claiming", "running"}

C33_SweepThrottled ==
  [][~cleanupDue =>
       \A s \in DOMAIN steps : steps'[s].abandoned_count <= steps[s].abandoned_count]_vars

\* C34: the PID file enforces a singleton: at most one daemon process exists
\* on the host at any time, also when start requests run concurrently
C34_SingleDaemon ==
  Cardinality(LiveDaemons(ctl)) <= 1

\* C35: the spec cache returns the cached spec only for an entry that is
\* younger than the TTL and whose digest is the file's, so the spec it
\* returns is the one the file holds now, never one loaded before a change
C35_CacheReturnsCurrentSpec ==
  CacheHit(workflowCache) =>
    workflowCache.entry.spec = loadWorkflowSpec(workflowCache.file)

\* C36: a running run whose loop step is done, with no later step pending
\* or running and a later step waiting, is eventually advanced by the
\* sweep: its next waiting step leaves waiting
StuckAt(s) ==
  /\ s \in DOMAIN steps
  /\ NextWaiting(DB, steps[s].run) = s
  /\ \E L \in StuckLoops(DB) : steps[L].run = steps[s].run

C36_StuckPipelineRecovered ==
  \A s \in 1..3 : StuckAt(s) ~> (steps[s].status \in {"pending", "running", "done"})

\* the pipeline of a run is stuck behind its done loop step
C36_Witness ==
  \E s \in DOMAIN steps : StuckAt(s) /\ runs[steps[s].run].status = "running"

\* C37: a loop step that waits for verification (running, no current story,
\* its verify step pending) is skipped by the abandoned-step pass however
\* old it is: its status, abandoned_count and retry_count stay as they are
AwaitsVerification(s) ==
  /\ steps[s].status = "running"
  /\ steps[s].type = "loop" /\ steps[s].cur = NULL
  /\ steps[s].verifyEach /\ steps[s].verifyStep # NULL
  /\ steps[steps[s].verifyStep].status = "pending"

C37_VerifyWaitSkipped ==
  \A s \in DOMAIN steps :
    AwaitsVerification(s) =>
      LET d == cleanupAbandonedSteps(DB)
      IN  /\ d.steps[s].status = steps[s].status
          /\ d.steps[s].abandoned_count = steps[s].abandoned_count
          /\ d.steps[s].retry_count = steps[s].retry_count

\* a loop step has waited for its verification beyond the abandonment threshold
C37_Witness ==
  \E s \in DOMAIN steps : AwaitsVerification(s) /\ steps[s].age >= AbandonedAge

\* C38: completeStep takes effect only on a running step: the report of a
\* worker whose step is no longer running changes no step's status,
\* promotes no waiting step and does not complete the run
C38_LateCompletionIgnored ==
  \A s \in DOMAIN steps, o \in Outputs :
    (workers[s] > 0 /\ steps[s].status # "running"
       /\ Len(stories) + o.nstories <= MaxStories) =>
      LET d == completeStep(DB, s, o)
      IN  /\ \A t \in DOMAIN steps : d.steps[t].status = steps[t].status
          /\ d.runs[steps[s].run].status = runs[steps[s].run].status

\* C39: retry budgets hold on every path: a step or story that is not
\* failed has retry_count at most its max_retries, and no step has
\* abandoned_count above MAX_ABANDON_RESETS
C39_RetryBudgets ==
  /\ \A s \in DOMAIN steps :
        /\ steps[s].status # "failed" => steps[s].retry_count <= steps[s].max_retries
        /\ steps[s].abandoned_count <= MAX_ABANDON_RESETS
  /\ \A y \in DOMAIN stories :
        stories[y].status # "failed" => stories[y].retry_count <= stories[y].max_retries

\* C40: when a verify step reports STATUS: retry, the story that goes from
\* done back to pending, or to failed when its retries are exhausted, is the
\* story whose completion triggered that verification (the one handed to
\* the verifier when it was claimed), never another done story of the run.
C40_RetriedStoryIsVerified ==
  [][\A y \in DOMAIN stories :
       (stories[y].status = "done" /\ stories'[y].status \in {"pending", "failed"})
         => y = verifying]_vars

====
